---- MODULE Spec2Model ----
(***************************************************************************)
(* A model of the name table of Engine/Source/Runtime/Core/Private/        *)
(* UObject/UnrealNames.cpp: the entry allocator, the sharded open-         *)
(* addressing index, FNamePool (Store / Find / Reserve / batch load) and   *)
(* the FName constructors that sit on top of it.                           *)
(*                                                                         *)
(* Texts are sequences of character codes (ASCII codes for the narrow      *)
(* range, codes >= 128 for characters that need the wide encoding).        *)
(* Bit widths are scaled down (a slot word has SlotWordBits bits instead   *)
(* of 32, a hash 2 * SlotWordBits instead of 64) so that collisions,       *)
(* block roll-over and growth happen within a few operations; every width  *)
(* that is scaled says so where it is defined.                             *)
(***************************************************************************)
EXTENDS Integers, Sequences, FiniteSets, TLC

VARIABLES
    bCasePreserving,   \* WITH_CASE_PRESERVING_NAME of the build
    ENames,            \* FNamePool::ENameToEntry, EntryToEName, LargestEnameUnstableId
    Entries,           \* FNamePool::Entries, the FNameEntryAllocator
    ComparisonShards,  \* FNamePool::ComparisonShards
    DisplayShards,     \* FNamePool::DisplayShards (unused when ~bCasePreserving)
    BatchOwner,        \* the thread between BatchLock() and BatchUnlock(), or NoThread
    Fatal,             \* "" or the check() that has failed: the process is gone
    thr,               \* per thread: the call it is in and where it stands
    Held,              \* per thread: the FRWLocks it holds, in the order it took them
    Singleton,         \* bNamePoolInitialized and what has happened to NamePoolData
    returned,          \* history: the (request, handle) pairs of completed constructor calls
    nOps               \* history: how many calls have been started

vars == <<bCasePreserving, ENames, Entries, ComparisonShards, DisplayShards, BatchOwner,
          Fatal, thr, Held, Singleton, returned, nOps>>

-----------------------------------------------------------------------------
(* Bounds of the model *)

\* calls started in one run of the concurrent and of the no-name specification
MaxOps == 3

\* calls started in one run of the sequential specification
MaxSeqOps == 4

-----------------------------------------------------------------------------
(* Program constants.  Scaled: the source has 13 / 16 / 10 (or 4) / 8 /    *)
(* 1024; the relations between them are the source's.                      *)

FNameMaxBlockBits == 3
FNameBlockOffsetBits == 3
FNameMaxBlocks == 2 ^ FNameMaxBlockBits
FNameBlockOffsets == 2 ^ FNameBlockOffsetBits

FNamePoolShardBits == 1
FNamePoolShards == 2 ^ FNamePoolShardBits
FNamePoolInitialSlotBits == 1
FNamePoolInitialSlotsPerShard == 2 ^ FNamePoolInitialSlotBits

LoadFactorQuotient == 9
LoadFactorDivisor == 10

NAME_SIZE == 8

NAME_NO_NUMBER_INTERNAL == 0

\* FNameSlot: the identifier occupies the low EntryIdBits of the slot word, the
\* probe hash the bits above it
EntryIdBits == FNameMaxBlockBits + FNameBlockOffsetBits
EntryIdMask == 2 ^ EntryIdBits - 1
ProbeHashShift == EntryIdBits

\* bits of the slot word and of each half of a hash (uint32 in the source, where
\* 32 - 29 = 3 bits are left for the probe hash; the same 3 here)
SlotWordBits == EntryIdBits + 3
WordModulus == 2 ^ SlotWordBits

\* FNameEntryHeader::ProbeHashBits (5 in the source)
EntryProbeHashBits == 2

NoThread == 0
NoId == -1

-----------------------------------------------------------------------------
(* Characters and strings *)

Min(S) == CHOOSE x \in S : \A y \in S : x <= y

\* F applied to the value of v, which is computed once: a local variable of the
\* source that is assigned once and read several times
With(v, F(_)) == CHOOSE r \in {F(x) : x \in {v}} : TRUE

RECURSIVE SumSeq(_)
SumSeq(s) == IF s = <<>> THEN 0 ELSE Head(s) + SumSeq(Tail(s))

\* TChar<CharType>::ToLower: ASCII letters only
ToLower(c) == IF c >= 65 /\ c <= 90 THEN c + 32 ELSE c

LowerStr(s) == [i \in 1..Len(s) |-> ToLower(s[i])]

\* IsWide / GetLengthAndWidth: some character has a bit above the low seven
IsWide(s) == \E i \in 1..Len(s) : s[i] >= 128

\* FNameStringView: Len characters and their width
FNameStringView(Str, bIsWide) == [Str |-> Str, Len |-> Len(Str), bIsWide |-> bIsWide]

\* The bytes CityHash64 is given: one per ANSICHAR, two (little endian) per WIDECHAR
ViewBytes(Str, bIsWide) ==
    IF bIsWide
    THEN [i \in 1..(2 * Len(Str)) |->
            IF i % 2 = 1 THEN Str[(i + 1) \div 2] % 256 ELSE Str[i \div 2] \div 256]
    ELSE Str

\* A faulty EqualsSameDimensions: the characters are not compared
EqualsSameDimensions_NoCompare(bCaseSensitive, A, B) == TRUE

\* Strncmp / Strnicmp over the first A.Len characters (texts hold no NUL); a
\* character past the end of B compares unequal
EqualsSameDimensions(bCaseSensitive, A, B) ==
    \A i \in 1..A.Len :
        /\ i <= Len(B.Str)
        /\ IF bCaseSensitive THEN A.Str[i] = B.Str[i]
                             ELSE ToLower(A.Str[i]) = ToLower(B.Str[i])

-----------------------------------------------------------------------------
(* FNameHash *)

\* multiplier of the stand-in for CityHash64
HashMultiplier == 8551

\* CityHash64 is outside the name table's source: a stand-in that mixes the byte
\* sum, so that permutations of a text (and texts of equal byte sum) collide on
\* every part of the hash
CityHash64(Bytes) == (SumSeq(Bytes) * HashMultiplier) % (WordModulus * WordModulus)

\* b & 0xdf
AndDF(b) == IF (b \div 32) % 2 = 1 THEN b - 32 ELSE b

\* A faulty IsAnsiNone: no text is recognised as "None"
IsAnsiNone_Never(Str, bIsWide) == 0

IsAnsiNone(Str, bIsWide) ==
    IF bIsWide \/ Len(Str) # 4 THEN 0
    ELSE IF <<AndDF(Str[1]), AndDF(Str[2]), AndDF(Str[3]), AndDF(Str[4])>> = <<78, 79, 78, 69>>
         THEN 1 ELSE 0

\* FNameHash(Str, Len, Hash)
FNameHash(Str, bIsWide, Hash) ==
    LET Hi == Hash \div WordModulus
        Lo == Hash % WordModulus
        IsNoneBit == IsAnsiNone(Str, bIsWide) * (2 ^ ProbeHashShift)
        HiProbe == Hi - (Hi % (2 ^ EntryIdBits))
    IN [ShardIndex |-> Hi % FNamePoolShards,
        UnmaskedSlotIndex |-> Lo,
        SlotProbeHash |-> IF (HiProbe \div (2 ^ ProbeHashShift)) % 2 = 1
                          THEN HiProbe ELSE HiProbe + IsNoneBit,
        EntryProbeHeader |->
            [Len |-> Len(Str), bIsWide |-> bIsWide,
             LowercaseProbeHash |->
                IF bCasePreserving THEN 0
                ELSE (Hi \div FNamePoolShards) % (2 ^ EntryProbeHashBits)]]

GenerateHash(Str, bIsWide) == CityHash64(ViewBytes(Str, bIsWide))

GenerateLowerCaseHash(Str, bIsWide) == GenerateHash(LowerStr(Str), bIsWide)

\* A faulty HashName: the text is hashed as it is spelled, whatever the sensitivity
HashName_AsSpelled(bCaseSensitive, Name) ==
    FNameHash(Name.Str, Name.bIsWide, GenerateHash(Name.Str, Name.bIsWide))

\* HashName<Sensitivity>
HashName(bCaseSensitive, Name) ==
    IF bCaseSensitive
    THEN FNameHash(Name.Str, Name.bIsWide, GenerateHash(Name.Str, Name.bIsWide))
    ELSE FNameHash(LowerStr(Name.Str), Name.bIsWide,
                   GenerateHash(LowerStr(Name.Str), Name.bIsWide))

\* FNameValue<Sensitivity>
FNameValue(bCaseSensitive, Name) ==
    [Name |-> Name, Hash |-> HashName(bCaseSensitive, Name), ComparisonId |-> NoId]

FNameValueWithHash(Name, Hash) ==
    [Name |-> Name, Hash |-> Hash, ComparisonId |-> NoId]

-----------------------------------------------------------------------------
(* FNameEntryHandle, FNameSlot *)

\* FNameEntryHandle::operator FNameEntryId: Block << FNameBlockOffsetBits | Offset
HandleToId(Block, Offset) == Block * FNameBlockOffsets + (Offset % FNameBlockOffsets)

\* FNameEntryHandle(FNameEntryId)
IdToHandle(Id) == [Block |-> Id \div FNameBlockOffsets, Offset |-> Id % FNameBlockOffsets]

\* FNameSlot(Value, ProbeHash): IdAndHash = Value | ProbeHash
FNameSlot(Id, ProbeHash) == (Id % (2 ^ EntryIdBits)) + ProbeHash

\* the check() of the FNameSlot constructor
FNameSlotCheck(Id, ProbeHash) ==
    /\ Id \div (2 ^ EntryIdBits) = 0
    /\ ProbeHash % (2 ^ EntryIdBits) = 0
    /\ FNameSlot(Id, ProbeHash) # 0

GetId(Slot) == Slot % (2 ^ EntryIdBits)
GetProbeHash(Slot) == Slot - (Slot % (2 ^ EntryIdBits))
Used(Slot) == Slot # 0

-----------------------------------------------------------------------------
(* FNameEntry layout and FNameEntryAllocator *)

\* alignof(FNameEntry): the entry starts with a 4-byte ComparisonId when case is
\* preserved, otherwise with the 2-byte header
Stride == IF bCasePreserving THEN 4 ELSE 2

\* FNameEntry::GetDataOffset
GetDataOffset == IF bCasePreserving THEN 6 ELSE 2

BlockSizeBytes == Stride * FNameBlockOffsets

Align(Bytes, Alignment) == ((Bytes + Alignment - 1) \div Alignment) * Alignment

BytesWithoutTerminator(Name) == Name.Len * (IF Name.bIsWide THEN 2 ELSE 1)

\* FNameEntry::GetSize
GetSize(Length, bIsPureAnsi) ==
    Align(GetDataOffset + Length * (IF bIsPureAnsi THEN 1 ELSE 2), Stride)

\* FNameEntryAllocator()
NewAllocator ==
    [CurrentBlock |-> 0, CurrentByteCursor |-> 0, Blocks |-> {0},
     Terminators |-> {}, Mem |-> <<>>]

\* ReserveBlocks(Num)
ReserveBlocks(A, Num) ==
    [A EXCEPT !.Blocks = @ \cup {Idx \in (A.CurrentBlock + 1)..(Num - 1) :
                                     \A J \in Idx..(Num - 1) : J \notin A.Blocks}]

\* AllocateNewBlock
AllocateNewBlock(A) ==
    [A EXCEPT !.Terminators =
                  IF A.CurrentByteCursor + GetDataOffset <= BlockSizeBytes
                  THEN @ \cup {<<A.CurrentBlock, A.CurrentByteCursor>>} ELSE @,
              !.CurrentBlock = @ + 1,
              !.CurrentByteCursor = 0,
              !.Blocks = @ \cup {A.CurrentBlock + 1}]

\* A faulty Allocate: no check(Bytes <= BlockSizeBytes)
Allocate_NoSizeCheck(A, InBytes) ==
    With(Align(InBytes, Stride), LAMBDA Bytes :
    With(IF BlockSizeBytes - A.CurrentByteCursor < Bytes THEN AllocateNewBlock(A) ELSE A,
         LAMBDA A1 :
    LET ByteOffset == A1.CurrentByteCursor
    IN IF A1.CurrentBlock >= FNameMaxBlocks
       THEN [A |-> A1, Block |-> 0, Offset |-> 0, Fatal |-> TRUE]
       ELSE [A |-> [A1 EXCEPT !.CurrentByteCursor = @ + Bytes],
             Block |-> A1.CurrentBlock,
             Offset |-> ByteOffset \div Stride,
             Fatal |-> ~(ByteOffset % Stride = 0 /\ ByteOffset \div Stride < FNameBlockOffsets)]))

\* A faulty Allocate: the current block is used although the request does not
\* fit into what is left of it
Allocate_NoNewBlock(A, InBytes) ==
    With(Align(InBytes, Stride), LAMBDA Bytes :
    LET ByteOffset == A.CurrentByteCursor
    IN IF Bytes > BlockSizeBytes
       THEN [A |-> A, Block |-> 0, Offset |-> 0, Fatal |-> TRUE]
       ELSE [A |-> [A EXCEPT !.CurrentByteCursor = @ + Bytes],
             Block |-> A.CurrentBlock,
             Offset |-> ByteOffset \div Stride,
             Fatal |-> ~(ByteOffset % Stride = 0 /\ ByteOffset \div Stride < FNameBlockOffsets)])

\* Allocate(Bytes): the new allocator state, the handle, and whether a check() failed
Allocate(A, InBytes) ==
    With(Align(InBytes, Stride), LAMBDA Bytes :
    With(IF BlockSizeBytes - A.CurrentByteCursor < Bytes THEN AllocateNewBlock(A) ELSE A,
         LAMBDA A1 :
    LET ByteOffset == A1.CurrentByteCursor
    IN IF Bytes > BlockSizeBytes
       THEN [A |-> A, Block |-> 0, Offset |-> 0, Fatal |-> TRUE]
       ELSE IF A1.CurrentBlock >= FNameMaxBlocks
       THEN [A |-> A1, Block |-> 0, Offset |-> 0, Fatal |-> TRUE]
       ELSE [A |-> [A1 EXCEPT !.CurrentByteCursor = @ + Bytes],
             Block |-> A1.CurrentBlock,
             Offset |-> ByteOffset \div Stride,
             Fatal |-> ~(ByteOffset % Stride = 0 /\ ByteOffset \div Stride < FNameBlockOffsets)]))

\* A faulty Create: every entry is made its own comparison entry
InitEntry_OwnComparisonId(Id, Name, ComparisonId, Header) ==
    [ComparisonId |-> IF ~bCasePreserving THEN NoId ELSE Id,
     Header |-> Header,
     Name |-> Name.Str]

\* Create, after Allocate: Entry.ComparisonId, Entry.Header, Entry.StoreName
InitEntry(Id, Name, ComparisonId, Header) ==
    [ComparisonId |-> IF ~bCasePreserving THEN NoId
                      ELSE IF ComparisonId # NoId THEN ComparisonId ELSE Id,
     Header |-> Header,
     Name |-> Name.Str]

\* Create(Name, ComparisonId, Header)
Create(A, Name, ComparisonId, Header) ==
    With(Allocate(A, GetDataOffset + BytesWithoutTerminator(Name)), LAMBDA R :
        LET Id == HandleToId(R.Block, R.Offset)
            Entry == InitEntry(Id, Name, ComparisonId, Header)
        IN IF R.Fatal
           THEN [A |-> R.A, Id |-> NoId, Fatal |-> TRUE]
           ELSE [A |-> [R.A EXCEPT !.Mem = (Id :> Entry) @@ @], Id |-> Id, Fatal |-> FALSE])

\* Resolve(Handle).MakeView()
MakeView(Entry) == FNameStringView(Entry.Name, Entry.Header.bIsWide)

-----------------------------------------------------------------------------
(* FNamePoolShard *)

\* FNamePoolShardBase::Initialize
NewShard ==
    [Slots |-> [i \in 1..FNamePoolInitialSlotsPerShard |-> 0],
     UsedSlots |-> 0, NumCreatedEntries |-> 0, NumCreatedWideEntries |-> 0]

Capacity(Shard) == Len(Shard.Slots)

\* A faulty EntryEqualsValue, to try the properties on: no entry ever equals a
\* value, so every Insert creates
EntryEqualsValue_Never(bCaseSensitive, Entry, Value) == FALSE

\* EntryEqualsValue<Sensitivity>
EntryEqualsValue(bCaseSensitive, Entry, Value) ==
    /\ Entry.Header = Value.Hash.EntryProbeHeader
    /\ EqualsSameDimensions(bCaseSensitive, MakeView(Entry), Value.Name)

\* Probe(UnmaskedSlotIndex, Predicate): the (1-based) index of the first slot from
\* the probe start that is unused or fulfils the predicate; 0 when the loop would
\* never end (no unused slot and no match)
Probe(Slots, UnmaskedSlotIndex, Predicate(_)) ==
    With(UnmaskedSlotIndex % Len(Slots), LAMBDA Start :
    With({k \in 0..(Len(Slots) - 1) :
             \E Slot \in {Slots[((Start + k) % Len(Slots)) + 1]} :
                 ~Used(Slot) \/ Predicate(Slot)}, LAMBDA Stops :
    IF Stops = {} THEN 0
    ELSE With(Min(Stops), LAMBDA First : ((Start + First) % Len(Slots)) + 1)))

\* the predicate of Probe(Value)
SlotMatchesValue(bCaseSensitive, Mem, Slot, Value) ==
    /\ GetProbeHash(Slot) = Value.Hash.SlotProbeHash
    /\ GetId(Slot) \in DOMAIN Mem
    /\ EntryEqualsValue(bCaseSensitive, Mem[GetId(Slot)], Value)

\* A faulty Probe(Value): it stops at the first unused slot only
ProbeValue_FirstUnused(bCaseSensitive, Shard, Mem, Value) ==
    Probe(Shard.Slots, Value.Hash.UnmaskedSlotIndex, LAMBDA Slot : FALSE)

\* Probe(Value)
ProbeValue(bCaseSensitive, Shard, Mem, Value) ==
    Probe(Shard.Slots, Value.Hash.UnmaskedSlotIndex,
          LAMBDA Slot : SlotMatchesValue(bCaseSensitive, Mem, Slot, Value))

\* Rehash(EntryId)
Rehash(bCaseSensitive, Mem, EntryId) == HashName(bCaseSensitive, MakeView(Mem[EntryId]))

\* the loop of Grow: re-insert the used slots of OldSlots from OldIdx on
RECURSIVE GrowLoop(_, _, _, _, _, _)
GrowLoop(bCaseSensitive, Mem, OldSlots, OldIdx, NewSlots, NewUsed) ==
    IF OldIdx > Len(OldSlots)
    THEN [Slots |-> NewSlots, UsedSlots |-> NewUsed]
    ELSE IF ~Used(OldSlots[OldIdx])
    THEN GrowLoop(bCaseSensitive, Mem, OldSlots, OldIdx + 1, NewSlots, NewUsed)
    ELSE With(Rehash(bCaseSensitive, Mem, GetId(OldSlots[OldIdx])), LAMBDA Hash :
         With(Probe(NewSlots, Hash.UnmaskedSlotIndex, LAMBDA Slot : FALSE), LAMBDA I :
         With([NewSlots EXCEPT ![I] = OldSlots[OldIdx]], LAMBDA Claimed :
         With(NewUsed + 1, LAMBDA Count :
             GrowLoop(bCaseSensitive, Mem, OldSlots, OldIdx + 1, Claimed, Count)))))

\* A faulty Grow: the new slot array stays empty
Grow_Empty(bCaseSensitive, Shard, Mem, NewCapacity) ==
    [Shard EXCEPT !.Slots = [i \in 1..NewCapacity |-> 0], !.UsedSlots = 0]

\* Grow(NewCapacity)
Grow(bCaseSensitive, Shard, Mem, NewCapacity) ==
    With([i \in 1..NewCapacity |-> 0], LAMBDA NewSlots :
    With(GrowLoop(bCaseSensitive, Mem, Shard.Slots, 1, NewSlots, 0), LAMBDA R :
        [Shard EXCEPT !.Slots = R.Slots, !.UsedSlots = R.UsedSlots]))

\* A faulty ClaimSlot: it never grows the shard
ClaimSlot_NoGrow(bCaseSensitive, Shard, Mem, I, NewValue) ==
    [Shard EXCEPT !.Slots[I] = NewValue, !.UsedSlots = @ + 1]

\* ClaimSlot(UnusedSlot, NewValue)
ClaimSlot(bCaseSensitive, Shard, Mem, I, NewValue) ==
    With([Shard EXCEPT !.Slots[I] = NewValue, !.UsedSlots = @ + 1], LAMBDA S1 :
        IF S1.UsedSlots * LoadFactorDivisor >= LoadFactorQuotient * Capacity(S1)
        THEN With(Capacity(S1) * 2, LAMBDA NewCapacity :
                 Grow(bCaseSensitive, S1, Mem, NewCapacity))
        ELSE S1)

\* Find(Value): the identifier in the probed slot (0 from an unused slot)
ShardFind(bCaseSensitive, Shard, Mem, Value) ==
    With(ProbeValue(bCaseSensitive, Shard, Mem, Value), LAMBDA I : GetId(Shard.Slots[I]))

\* Insert(Value, bCreatedNewEntry)
ShardInsert(bCaseSensitive, Shard, A, Value) ==
    With(ProbeValue(bCaseSensitive, Shard, A.Mem, Value), LAMBDA I :
    IF Used(Shard.Slots[I])
    THEN [Shard |-> Shard, A |-> A, Id |-> GetId(Shard.Slots[I]),
          bCreatedNewEntry |-> FALSE, Fatal |-> ""]
    ELSE With(Create(A, Value.Name, Value.ComparisonId, Value.Hash.EntryProbeHeader),
              LAMBDA C :
         IF C.Fatal
         THEN [Shard |-> Shard, A |-> C.A, Id |-> NoId,
               bCreatedNewEntry |-> FALSE, Fatal |-> "Allocate"]
         ELSE IF ~FNameSlotCheck(C.Id, Value.Hash.SlotProbeHash)
         THEN [Shard |-> Shard, A |-> C.A, Id |-> NoId,
               bCreatedNewEntry |-> FALSE, Fatal |-> "FNameSlot"]
         ELSE With(ClaimSlot(bCaseSensitive, Shard, C.A.Mem, I,
                             FNameSlot(C.Id, Value.Hash.SlotProbeHash)), LAMBDA S1 :
              [Shard |-> [S1 EXCEPT !.NumCreatedEntries = @ + 1,
                                    !.NumCreatedWideEntries =
                                        @ + (IF Value.Name.bIsWide THEN 1 ELSE 0)],
               A |-> C.A, Id |-> C.Id, bCreatedNewEntry |-> TRUE, Fatal |-> ""])))

\* A faulty InsertExistingEntry: the probe stops at the first unused slot only
InsertExistingEntry_AlwaysClaim(bCaseSensitive, Shard, Mem, Hash, ExistingId) ==
    IF ~FNameSlotCheck(ExistingId, Hash.SlotProbeHash)
    THEN [Shard |-> Shard, Fatal |-> "FNameSlot"]
    ELSE With(FNameSlot(ExistingId, Hash.SlotProbeHash), LAMBDA NewLookup :
         With(Probe(Shard.Slots, Hash.UnmaskedSlotIndex, LAMBDA Old : FALSE), LAMBDA I :
             [Shard |-> ClaimSlot(bCaseSensitive, Shard, Mem, I, NewLookup), Fatal |-> ""]))

\* InsertExistingEntry(Hash, ExistingId)
InsertExistingEntry(bCaseSensitive, Shard, Mem, Hash, ExistingId) ==
    IF ~FNameSlotCheck(ExistingId, Hash.SlotProbeHash)
    THEN [Shard |-> Shard, Fatal |-> "FNameSlot"]
    ELSE With(FNameSlot(ExistingId, Hash.SlotProbeHash), LAMBDA NewLookup :
         With(Probe(Shard.Slots, Hash.UnmaskedSlotIndex, LAMBDA Old : Old = NewLookup),
              LAMBDA I :
         IF ~Used(Shard.Slots[I])
         THEN [Shard |-> ClaimSlot(bCaseSensitive, Shard, Mem, I, NewLookup), Fatal |-> ""]
         ELSE [Shard |-> Shard, Fatal |-> ""]))

\* FMath::RoundUpToPowerOfTwo
RECURSIVE RoundUpFrom(_, _)
RoundUpFrom(P, N) == IF P >= N THEN P ELSE RoundUpFrom(2 * P, N)
RoundUpToPowerOfTwo(N) == RoundUpFrom(1, N)

\* A faulty Reserve: the slots of the larger array are not filled from the old one
ShardReserve_Fresh(bCaseSensitive, Shard, Mem, Num) ==
    With(RoundUpToPowerOfTwo((Num * LoadFactorDivisor) \div LoadFactorQuotient),
         LAMBDA WantedCapacity :
        IF WantedCapacity > Capacity(Shard)
        THEN [Shard EXCEPT !.Slots = [i \in 1..WantedCapacity |-> 0], !.UsedSlots = 0]
        ELSE Shard)

\* Reserve(Num)
ShardReserve(bCaseSensitive, Shard, Mem, Num) ==
    With(RoundUpToPowerOfTwo((Num * LoadFactorDivisor) \div LoadFactorQuotient),
         LAMBDA WantedCapacity :
        IF WantedCapacity > Capacity(Shard)
        THEN Grow(bCaseSensitive, Shard, Mem, WantedCapacity)
        ELSE Shard)

-----------------------------------------------------------------------------
(* FName construction: FNameHelper *)

MAX_int32 == 2147483647

\* ParseNumber::MaxDigitsInt32
MaxDigitsInt32 == 10

\* int64 and uint32 values are kept as 16-bit limbs, least significant first, so
\* that every arithmetic step has the width it has in the source
LimbBase == 65536
Int64Limbs == 4
Uint32Limbs == 2

\* N * Mul + Carry in the width of N (the carry out of the top limb is lost)
RECURSIVE MulAddLimbs(_, _, _, _)
MulAddLimbs(N, i, Mul, Carry) ==
    IF i > Len(N) THEN <<>>
    ELSE <<(N[i] * Mul + Carry) % LimbBase>>
            \o MulAddLimbs(N, i + 1, Mul, (N[i] * Mul + Carry) \div LimbBase)

\* a non-negative int32 widened to int64
ToInt64(x) == [i \in 1..Int64Limbs |->
                 IF i = 1 THEN x % LimbBase ELSE IF i = 2 THEN x \div LimbBase ELSE 0]

\* A < B for int64 values A, B >= 0 (the top limb of a negative value is >= 2^15)
RECURSIVE LessLimbs(_, _, _)
LessLimbs(A, B, i) ==
    IF i = 0 THEN FALSE
    ELSE IF A[i] # B[i] THEN A[i] < B[i] ELSE LessLimbs(A, B, i - 1)
Int64Less(A, B) ==
    IF A[Int64Limbs] >= LimbBase \div 2 THEN B[Int64Limbs] < LimbBase \div 2
    ELSE B[Int64Limbs] < LimbBase \div 2 /\ LessLimbs(A, B, Int64Limbs)

\* static_cast<uint32>(int64): the low 32 bits
ToUint32(N) == SubSeq(N, 1, Uint32Limbs)

\* uint32 passed as int32 (MakeWithNumber's InternalNumber): two's complement
ToInt32(U) ==
    IF U[2] >= LimbBase \div 2 THEN (U[2] - LimbBase) * LimbBase + U[1]
    ELSE U[2] * LimbBase + U[1]

\* NAME_EXTERNAL_TO_INTERNAL
NAME_EXTERNAL_TO_INTERNAL(x) == MulAddLimbs(x, 1, 1, 1)

IsDigit(c) == c >= 48 /\ c <= 57

\* the FName value: comparison identifier, display identifier, internal number
MakeFName(ComparisonId, DisplayId, InternalNumber) ==
    [ComparisonIndex |-> ComparisonId, DisplayIndex |-> DisplayId, Number |-> InternalNumber]

\* FName()
NAME_None == MakeFName(0, 0, NAME_NO_NUMBER_INTERNAL)

\* FName::operator==(FName): comparison identifier and number
FNameEquals(A, B) == A.ComparisonIndex = B.ComparisonIndex /\ A.Number = B.Number

\* Atoi64: N = 10 * N + Str[Idx] - '0' in int64
RECURSIVE Atoi64(_)
Atoi64(Digits) ==
    IF Digits = <<>> THEN ToInt64(0)
    ELSE MulAddLimbs(Atoi64(SubSeq(Digits, 1, Len(Digits) - 1)), 1, 10,
                     Digits[Len(Digits)] - 48)

\* the digits counted by the loop of ParseNumber: the trailing digits of Name[1..L]
RECURSIVE TrailingDigits(_, _)
TrailingDigits(Name, L) ==
    IF L >= 1 /\ IsDigit(Name[L]) THEN 1 + TrailingDigits(Name, L - 1) ELSE 0

\* A faulty ParseNumber: a suffix of several digits may begin with '0'
ParseNumber_LeadingZero(Name, InLen) ==
    LET Digits == TrailingDigits(Name, InLen)
        FirstDigit == InLen - Digits + 1
        Number == Atoi64(SubSeq(Name, FirstDigit, InLen))
    IN IF /\ Digits > 0 /\ Digits < InLen /\ Name[FirstDigit - 1] = 95 /\ Digits <= MaxDigitsInt32
          /\ Int64Less(Number, ToInt64(MAX_int32))
       THEN [Number |-> ToInt32(ToUint32(NAME_EXTERNAL_TO_INTERNAL(Number))),
             Len |-> InLen - (1 + Digits)]
       ELSE [Number |-> NAME_NO_NUMBER_INTERNAL, Len |-> InLen]

\* A faulty ParseNumber: the number is not compared with MAX_int32
ParseNumber_NoRangeCheck(Name, InLen) ==
    LET Digits == TrailingDigits(Name, InLen)
        FirstDigit == InLen - Digits + 1
        Number == Atoi64(SubSeq(Name, FirstDigit, InLen))
    IN IF /\ Digits > 0 /\ Digits < InLen /\ Name[FirstDigit - 1] = 95 /\ Digits <= MaxDigitsInt32
          /\ (Digits = 1 \/ Name[FirstDigit] # 48)
       THEN [Number |-> ToInt32(ToUint32(NAME_EXTERNAL_TO_INTERNAL(Number))),
             Len |-> InLen - (1 + Digits)]
       ELSE [Number |-> NAME_NO_NUMBER_INTERNAL, Len |-> InLen]

\* ParseNumber(Name, InOutLen): the internal number, as MakeWithNumber receives it
\* (uint32 passed as int32), and the (maybe shortened) length
ParseNumber(Name, InLen) ==
    LET Digits == TrailingDigits(Name, InLen)
        FirstDigit == InLen - Digits + 1
        Number == Atoi64(SubSeq(Name, FirstDigit, InLen))
    IN IF /\ Digits > 0 /\ Digits < InLen /\ Name[FirstDigit - 1] = 95 /\ Digits <= MaxDigitsInt32
          /\ (Digits = 1 \/ Name[FirstDigit] # 48)
          /\ Int64Less(Number, ToInt64(MAX_int32))
       THEN [Number |-> ToInt32(ToUint32(NAME_EXTERNAL_TO_INTERNAL(Number))),
             Len |-> InLen - (1 + Digits)]
       ELSE [Number |-> NAME_NO_NUMBER_INTERNAL, Len |-> InLen]

\* strlen / GetLengthAndWidth of a null-terminated buffer (0 for a null pointer)
Strlen(Buf, bNull) == IF bNull THEN 0 ELSE Len(Buf)

\* What a constructor call comes to before it reaches the pool: either a handle
\* at once (Immediate), or a call of Make(View, FindType, Number)
MakeCall(View, Number) == [Immediate |-> FALSE, Result |-> NAME_None, View |-> View, Number |-> Number]
MakeImmediate(Result) ==
    [Immediate |-> TRUE, Result |-> Result, View |-> FNameStringView(<<>>, FALSE), Number |-> 0]

\* A faulty MakeWithNumber: the empty text is not answered with FName() but
\* handed on to the pool
MakeWithNumber_NoEmptyCheck(Buf, ViewLen, bWideBuf, bIsWide, InternalNumber) ==
    MakeCall(FNameStringView(SubSeq(Buf, 1, ViewLen), bWideBuf /\ bIsWide), InternalNumber)

\* MakeWithNumber(View, FindType, InternalNumber), both overloads: an empty text
\* is FName(); a WIDECHAR buffer without wide characters is narrowed
MakeWithNumber(Buf, ViewLen, bWideBuf, bIsWide, InternalNumber) ==
    IF ViewLen = 0
    THEN MakeImmediate(NAME_None)
    ELSE MakeCall(FNameStringView(SubSeq(Buf, 1, ViewLen), bWideBuf /\ bIsWide), InternalNumber)

\* A faulty MakeDetectNumber: the empty text is not answered with FName() but
\* handed on to the pool
MakeDetectNumber_NoEmptyCheck(Buf, ViewLen, bWideBuf, bIsWide) ==
    LET P == ParseNumber(Buf, ViewLen)
    IN MakeCall(FNameStringView(SubSeq(Buf, 1, P.Len), bWideBuf /\ bIsWide), P.Number)

\* MakeDetectNumber(View, FindType)
MakeDetectNumber(Buf, ViewLen, bWideBuf, bIsWide) ==
    IF ViewLen = 0
    THEN MakeImmediate(NAME_None)
    ELSE LET P == ParseNumber(Buf, ViewLen)
         IN MakeWithNumber(Buf, P.Len, bWideBuf, bIsWide, P.Number)

\* A request: a call of the name API
\*   Op "FName": FName(Name, FindType), the ANSICHAR or the WIDECHAR overload
\*   Op "Reserve": FNamePool::Reserve(NumBytes, NumEntries)
\*   Op "LoadNameBatch": LoadNameBatch of the serialized Names
FNameReq(FindType, Buf, bNull, bWideBuf) ==
    [Op |-> "FName", FindType |-> FindType, Buf |-> Buf, bNull |-> bNull,
     bWideBuf |-> bWideBuf, NumBytes |-> 0, NumEntries |-> 0, Names |-> <<>>, bHash |-> FALSE]
ReserveReq(NumBytes, NumEntries) ==
    [Op |-> "Reserve", FindType |-> "", Buf |-> <<>>, bNull |-> FALSE,
     bWideBuf |-> FALSE, NumBytes |-> NumBytes, NumEntries |-> NumEntries,
     Names |-> <<>>, bHash |-> FALSE]
LoadNameBatchReq(Names, bHash) ==
    [Op |-> "LoadNameBatch", FindType |-> "", Buf |-> <<>>, bNull |-> FALSE,
     bWideBuf |-> FALSE, NumBytes |-> 0, NumEntries |-> 0, Names |-> Names, bHash |-> bHash]

\* FName(const ANSICHAR*, FindType) / FName(const WIDECHAR*, FindType)
FNameCtor(Req) ==
    LET L == Strlen(Req.Buf, Req.bNull)
    IN MakeDetectNumber(Req.Buf, L, Req.bWideBuf, IsWide(SubSeq(Req.Buf, 1, L)))

\* A constructor call with all the arguments an overload can take
\*   "Name":            FName(Name, FindType)
\*   "LenName":         FName(Len, Name, FindType)
\*   "NameNumber":      FName(Name, InNumber, FindType)
\*   "LenNameNumber":   FName(Len, Name, InNumber, FindType)
\*   "NameNumberSplit": FName(const TCHAR* Name, InNumber, FindType, bSplitName)
CtorReq(Overload, Buf, bNull, bWideBuf, InLen, InNumber, bSplitName) ==
    [Overload |-> Overload, Buf |-> Buf, bNull |-> bNull, bWideBuf |-> bWideBuf,
     Len |-> InLen, InNumber |-> InNumber, bSplitName |-> bSplitName]

\* MakeUnconvertedView(Str) / MakeUnconvertedView(Str, Len): the length of the view
ViewLen(Req) ==
    IF Req.Overload \in {"LenName", "LenNameNumber"} THEN Req.Len
    ELSE Strlen(Req.Buf, Req.bNull)

\* A faulty FName(Len, Name, FindType): the buffer is read up to its terminator
FNameCtorLen_ToTerminator(Req) == FNameCtor(Req)

\* FName(Len, Name, FindType)
FNameCtorLen(Req) ==
    MakeDetectNumber(Req.Buf, Req.Len, Req.bWideBuf, IsWide(SubSeq(Req.Buf, 1, Req.Len)))

\* FName(Name, InNumber, FindType)
FNameCtorNumber(Req) ==
    LET L == Strlen(Req.Buf, Req.bNull)
    IN MakeWithNumber(Req.Buf, L, Req.bWideBuf, IsWide(SubSeq(Req.Buf, 1, L)), Req.InNumber)

\* A faulty FName(Len, Name, InNumber, FindType): the supplied number is ignored
\* and the text is always searched for a suffix
FNameCtorLenNumber_AlwaysDetect(Req) == FNameCtorLen(Req)

\* FName(Len, Name, InNumber, FindType)
FNameCtorLenNumber(Req) ==
    IF Req.InNumber # NAME_NO_NUMBER_INTERNAL
    THEN MakeWithNumber(Req.Buf, Req.Len, Req.bWideBuf,
                        IsWide(SubSeq(Req.Buf, 1, Req.Len)), Req.InNumber)
    ELSE FNameCtorLen(Req)

\* FName(const TCHAR* Name, InNumber, FindType, bSplitName)
FNameCtorSplitName(Req) ==
    IF Req.InNumber = NAME_NO_NUMBER_INTERNAL /\ Req.bSplitName
    THEN FNameCtor(Req)
    ELSE FNameCtorNumber(Req)

\* the overload a call resolves to
Construct(Req) ==
    CASE Req.Overload = "Name" -> FNameCtor(Req)
      [] Req.Overload = "LenName" -> FNameCtorLen(Req)
      [] Req.Overload = "NameNumber" -> FNameCtorNumber(Req)
      [] Req.Overload = "LenNameNumber" -> FNameCtorLenNumber(Req)
      [] Req.Overload = "NameNumberSplit" -> FNameCtorSplitName(Req)

-----------------------------------------------------------------------------
(* FNamePool.  A pool value P is [Entries, ComparisonShards, DisplayShards];   *)
(* shard k of the source is element k + 1 of the sequence.  Each operator is  *)
(* one critical section of the source (one scope of a shard lock).            *)

Pool == [Entries |-> Entries, ComparisonShards |-> ComparisonShards,
         DisplayShards |-> DisplayShards]

\* DisplayShard.Find(DisplayValue) of Store and of Find
PoolDisplayFind(P, Name) ==
    With(FNameValue(TRUE, Name), LAMBDA DisplayValue :
        ShardFind(TRUE, P.DisplayShards[DisplayValue.Hash.ShardIndex + 1],
                  P.Entries.Mem, DisplayValue))

\* ComparisonShards[...].Find(ComparisonValue) of Find
PoolComparisonFind(P, Name) ==
    With(FNameValue(FALSE, Name), LAMBDA ComparisonValue :
        ShardFind(FALSE, P.ComparisonShards[ComparisonValue.Hash.ShardIndex + 1],
                  P.Entries.Mem, ComparisonValue))

\* ComparisonShards[...].Insert(ComparisonValue, bAdded), as Store and BatchStore call it
PoolComparisonInsert(P, ComparisonValue) ==
    With(ComparisonValue, LAMBDA Value :
    With(Value.Hash.ShardIndex + 1, LAMBDA K :
    With(ShardInsert(FALSE, P.ComparisonShards[K], P.Entries, Value), LAMBDA R :
        [P |-> [P EXCEPT !.ComparisonShards[K] = R.Shard, !.Entries = R.A],
         Id |-> R.Id, bAdded |-> R.bCreatedNewEntry, Fatal |-> R.Fatal])))

\* Store: "Check if ComparisonId can be used as DisplayId"
CanUseComparisonIdAsDisplayId(P, ComparisonId, bAdded, Name) ==
    bAdded \/ EqualsSameDimensions(TRUE, MakeView(P.Entries.Mem[ComparisonId]), Name)

\* DisplayShard.InsertExistingEntry(DisplayValue.Hash, ComparisonId) of Store
PoolInsertExisting(P, Name, ComparisonId) ==
    With(FNameValue(TRUE, Name), LAMBDA DisplayValue :
    With(DisplayValue.Hash.ShardIndex + 1, LAMBDA K :
    With(InsertExistingEntry(TRUE, P.DisplayShards[K], P.Entries.Mem,
                             DisplayValue.Hash, ComparisonId), LAMBDA R :
        [P |-> [P EXCEPT !.DisplayShards[K] = R.Shard],
         Id |-> ComparisonId, Fatal |-> R.Fatal])))

\* DisplayValue.ComparisonId = ComparisonId; DisplayShard.Insert(DisplayValue, bAdded) of Store
PoolDisplayInsert(P, Name, ComparisonId) ==
    With([FNameValue(TRUE, Name) EXCEPT !.ComparisonId = ComparisonId],
         LAMBDA DisplayValue :
    With(DisplayValue.Hash.ShardIndex + 1, LAMBDA K :
    With(ShardInsert(TRUE, P.DisplayShards[K], P.Entries, DisplayValue), LAMBDA R :
        [P |-> [P EXCEPT !.DisplayShards[K] = R.Shard, !.Entries = R.A],
         Id |-> R.Id, bAdded |-> R.bCreatedNewEntry, Fatal |-> R.Fatal])))

\* FNamePool::Store(Name), run alone from start to end
PoolStore(P, Name) ==
    With(IF bCasePreserving THEN PoolDisplayFind(P, Name) ELSE 0, LAMBDA Existing :
    IF Existing # 0 THEN [P |-> P, Id |-> Existing, Fatal |-> ""]
    ELSE With(PoolComparisonInsert(P, FNameValue(FALSE, Name)), LAMBDA C :
         IF C.Fatal # "" \/ ~bCasePreserving
         THEN [P |-> C.P, Id |-> C.Id, Fatal |-> C.Fatal]
         ELSE IF CanUseComparisonIdAsDisplayId(C.P, C.Id, C.bAdded, Name)
         THEN PoolInsertExisting(C.P, Name, C.Id)
         ELSE With(PoolDisplayInsert(C.P, Name, C.Id), LAMBDA D :
                  [P |-> D.P, Id |-> D.Id, Fatal |-> D.Fatal])))

\* FNamePool::Find(Name), run alone from start to end
PoolFind(P, Name) ==
    With(IF bCasePreserving THEN PoolDisplayFind(P, Name) ELSE 0, LAMBDA Existing :
        IF Existing # 0 THEN Existing ELSE PoolComparisonFind(P, Name))

\* Make: the comparison identifier that goes with a display identifier
ComparisonIdOf(P, DisplayId) ==
    IF bCasePreserving THEN P.Entries.Mem[DisplayId].ComparisonId ELSE DisplayId

\* Make, FNAME_Find: ComparisonId = DisplayId ? Resolve(DisplayId).ComparisonId : DisplayId
FindResult(P, DisplayId, InternalNumber) ==
    MakeFName(IF DisplayId # 0 THEN ComparisonIdOf(P, DisplayId) ELSE DisplayId,
              DisplayId, InternalNumber)

\* Make, FNAME_Add
AddResult(P, DisplayId, InternalNumber) ==
    MakeFName(ComparisonIdOf(P, DisplayId), DisplayId, InternalNumber)

\* NumEntries()
RECURSIVE SumCreated(_, _)
SumCreated(Shards, K) ==
    IF K = 0 THEN 0 ELSE Shards[K].NumCreatedEntries + SumCreated(Shards, K - 1)
NumEntries(P) ==
    (IF bCasePreserving THEN SumCreated(P.DisplayShards, FNamePoolShards) ELSE 0)
    + SumCreated(P.ComparisonShards, FNamePoolShards)

\* NumWideEntries()
RECURSIVE SumCreatedWide(_, _)
SumCreatedWide(Shards, K) ==
    IF K = 0 THEN 0 ELSE Shards[K].NumCreatedWideEntries + SumCreatedWide(Shards, K - 1)
NumWideEntries(P) ==
    (IF bCasePreserving THEN SumCreatedWide(P.DisplayShards, FNamePoolShards) ELSE 0)
    + SumCreatedWide(P.ComparisonShards, FNamePoolShards)

\* NumAnsiEntries()
NumAnsiEntries(P) == NumEntries(P) - NumWideEntries(P)

\* NAME_MaxHardcodedNameIndex (scaled) and the EName of None
NAME_MaxHardcodedNameIndex == 4
EName_None == 0
ENameIndexes == 0..(NAME_MaxHardcodedNameIndex - 1)

\* The hard-coded names (UnrealNames.inl), in registration order: a stand-in
\* list that begins, as the source's does, with None
Str_None == <<78, 111, 110, 101>>
Str_Max == <<77, 97, 120>>
HardcodedNames == <<Str_None, Str_Max>>

\* the REGISTER_NAME(num, name) lines of that list
HardcodedTable ==
    [i \in 1..Len(HardcodedNames) |-> [Num |-> i - 1, Name |-> HardcodedNames[i]]]

\* REGISTER_NAME for each line of the table: ENameToEntry[num] = Store(name); the
\* pool, the table and the check() that failed on the way, if one did
RECURSIVE RegisterNames(_, _, _)
RegisterNames(P, Table, ENameToEntry) ==
    IF Table = <<>> THEN [P |-> P, Fatal |-> "", ENameToEntry |-> ENameToEntry]
    ELSE With(PoolStore(P, FNameStringView(Head(Table).Name, FALSE)), LAMBDA R :
             IF R.Fatal # "" THEN [P |-> R.P, Fatal |-> R.Fatal, ENameToEntry |-> ENameToEntry]
             ELSE RegisterNames(R.P, Tail(Table),
                                [ENameToEntry EXCEPT ![Head(Table).Num] = R.Id]))

MaxOf(S) == CHOOSE x \in S : \A y \in S : y <= x

\* A faulty reverse mapping: index 0 is skipped like any other index whose
\* ENameToEntry is zero
MakeReverseMapping_SkipsNone(ENameToEntry) ==
    LET Mapped == {E \in ENameIndexes : ENameToEntry[E] # 0}
        Ids == {ENameToEntry[E] : E \in Mapped}
    IN [EntryToEName |-> [Id \in Ids |-> MaxOf({E \in Mapped : ENameToEntry[E] = Id})],
        LargestEnameUnstableId |-> MaxOf(Ids \cup {0})]

\* "Make reverse mapping": EntryToEName.Add for ENameIndex = 0, 1, ... (a later
\* Add of the same identifier replaces the earlier one) and LargestEnameUnstableId
MakeReverseMapping(ENameToEntry) ==
    LET Mapped == {E \in ENameIndexes : E = EName_None \/ ENameToEntry[E] # 0}
        Ids == {ENameToEntry[E] : E \in Mapped}
    IN [EntryToEName |-> [Id \in Ids |-> MaxOf({E \in Mapped : ENameToEntry[E] = Id})],
        LargestEnameUnstableId |-> MaxOf(Ids \cup {0})]

\* "Verify all ENames are unique": NumAnsiEntries() == EntryToEName.Num()
ENamesAreUnique(P, EntryToEName) == NumAnsiEntries(P) = Cardinality(DOMAIN EntryToEName)

\* FNamePool::FNamePool for a given table of hard-coded names: initialize the
\* shards, register the names, make the reverse mapping, verify
FNamePoolCtor(Table) ==
    With([Entries |-> NewAllocator,
          ComparisonShards |-> [k \in 1..FNamePoolShards |-> NewShard],
          DisplayShards |-> [k \in 1..FNamePoolShards |-> NewShard]], LAMBDA Empty :
    With(RegisterNames(Empty, Table, [E \in ENameIndexes |-> 0]), LAMBDA R :
    With(MakeReverseMapping(R.ENameToEntry), LAMBDA M :
        [P |-> R.P,
         Fatal |-> IF R.Fatal # "" THEN R.Fatal
                   ELSE IF ~ENamesAreUnique(R.P, M.EntryToEName)
                   THEN "DuplicateHardcodedName" ELSE "",
         ENames |-> [Table |-> Table, ENameToEntry |-> R.ENameToEntry,
                     EntryToEName |-> M.EntryToEName,
                     LargestEnameUnstableId |-> M.LargestEnameUnstableId]])))

\* the pool as the process constructs it
NewPool == FNamePoolCtor(HardcodedTable)

\* FNamePool::Find(EName)
FindByEName(E) == ENames.ENameToEntry[E]

\* FNamePool::FindEName(Id): the EName, or NoEName for nullptr
NoEName == NoId
FindEName(Id) ==
    IF Id > ENames.LargestEnameUnstableId THEN NoEName
    ELSE IF Id \in DOMAIN ENames.EntryToEName THEN ENames.EntryToEName[Id]
    ELSE NoEName

-----------------------------------------------------------------------------
(* The threads *)

Threads == {1, 2}

IdleThread ==
    [pc |-> "Idle", N |-> 0, Req |-> ReserveReq(0, 0), View |-> FNameStringView(<<>>, FALSE),
     Number |-> 0, Absent |-> FALSE, CmpId |-> NoId, Idx |-> 0,
     bDisplay |-> FALSE, NewId |-> NoId]

\* the texts the threads use
Str_none == <<110, 111, 110, 101>>
Str_NONE == <<78, 79, 78, 69>>
Str_ab == <<97, 98>>
Str_AB == <<65, 66>>
Str_ba == <<98, 97>>
Str_abx == <<97, 98, 120>>
Str_ab_1 == <<97, 98, 95, 49>>
Str_wide == <<228, 98>>
Str_WIDE == <<228, 66>>

ReserveRequests == {ReserveReq(0, 6)}

\* serialized names as SaveNameBatch writes them (text and width of an entry),
\* loaded with the saved hashes or, after a change of hash version, without
BatchNames == <<[Str |-> Str_AB, bIsUtf16 |-> FALSE], [Str |-> Str_WIDE, bIsUtf16 |-> TRUE]>>

\* the calls of the concurrent specification
Requests ==
    {FNameReq("Add", Buf, FALSE, FALSE) : Buf \in {Str_ab, Str_AB, Str_ba, Str_ab_1}}
    \cup {FNameReq("Find", Buf, FALSE, FALSE) : Buf \in {Str_AB, Str_ab_1}}
    \cup ReserveRequests
    \cup {LoadNameBatchReq(BatchNames, TRUE)}

\* the calls of the sequential specification: texts that collide ("ab" / "ba" on
\* the whole hash, "abx" with them on shard and slot probe hash, the wide text
\* with "Max" on the whole hash), so that probes pass over foreign slots
SeqRequests ==
    {FNameReq("Add", Buf, FALSE, FALSE) : Buf \in {Str_ab, Str_AB, Str_ba, Str_abx}}
    \cup {FNameReq("Add", Str_wide, FALSE, TRUE)}
    \cup {FNameReq("Find", Str_ba, FALSE, FALSE)}
    \cup ReserveRequests
    \cup {LoadNameBatchReq(BatchNames, bHash) : bHash \in BOOLEAN}

\* the calls of the no-name specification: every way to spell the no-name
SentinelTexts == {<<>>, Str_None, Str_none, Str_NONE}

SentinelRequests ==
    {FNameReq(FindType, Buf, FALSE, bWideBuf) :
        FindType \in {"Add", "Find"}, Buf \in SentinelTexts, bWideBuf \in BOOLEAN}
    \cup {FNameReq("Add", <<>>, TRUE, bWideBuf) : bWideBuf \in BOOLEAN}

Running == Fatal = ""

\* no entry of the pool holds Name, in whatever letter case
IsAbsent(P, Name) ==
    \A Id \in DOMAIN P.Entries.Mem :
        \/ P.Entries.Mem[Id].Header.bIsWide # Name.bIsWide
        \/ LowerStr(P.Entries.Mem[Id].Name) # LowerStr(Name.Str)

\* history: call N, its request, the view it handed to the pool, what it returned,
\* and whether the text was absent from the pool when the call began
Ret(N, Req, View, Result, Absent) ==
    [N |-> N, Req |-> Req, View |-> View, Result |-> Result, Absent |-> Absent]

\* the call of thread t returns Result
Finish(t, Result) ==
    /\ thr' = [thr EXCEPT ![t] = IdleThread]
    /\ returned' = returned \cup
            {Ret(thr[t].N, thr[t].Req, thr[t].View, Result, thr[t].Absent)}

SetPool(P) ==
    /\ Entries' = P.Entries
    /\ ComparisonShards' = P.ComparisonShards
    /\ DisplayShards' = P.DisplayShards

PoolUnchanged == UNCHANGED <<Entries, ComparisonShards, DisplayShards>>

\* a check() fails: the process aborts with the call unfinished
Abort(Why) ==
    /\ Fatal' = Why
    /\ UNCHANGED <<thr, returned>>

\* the first critical section of Make(View, FindType, Number)
MakeEntry(FindType) ==
    IF FindType = "Add"
    THEN (IF bCasePreserving THEN "StoreDisplayFind" ELSE "StoreComparisonInsert")
    ELSE (IF bCasePreserving THEN "FindDisplay" ELSE "FindComparison")

\* Thread t enters the name API with one of Reqs, as long as fewer than Max calls
\* have begun.  The constructors reach Make (or return FName() for an empty text)
\* without touching the pool.
Call(t, Reqs, Max) ==
    /\ Running /\ thr[t].pc = "Idle" /\ nOps < Max
    /\ nOps' = nOps + 1
    /\ \E Req \in Reqs :
        \/ /\ Req.Op = "FName"
           /\ \E C \in {FNameCtor(Req)} :
                 IF C.Immediate
                 THEN /\ returned' = returned \cup
                            {Ret(nOps + 1, Req, C.View, C.Result, FALSE)}
                      /\ UNCHANGED <<thr, Fatal>>
                 ELSE IF C.View.Len >= NAME_SIZE
                 THEN Abort("NAME_SIZE")
                 ELSE /\ thr' = [thr EXCEPT ![t] =
                            [IdleThread EXCEPT
                                !.pc = MakeEntry(Req.FindType), !.N = nOps + 1,
                                !.Req = Req, !.View = C.View, !.Number = C.Number,
                                !.Absent = IsAbsent(Pool, C.View)]]
                      /\ UNCHANGED <<returned, Fatal>>
        \/ /\ Req.Op = "Reserve"
           /\ thr' = [thr EXCEPT ![t] =
                        [IdleThread EXCEPT !.pc = "ReserveBlocks", !.N = nOps + 1, !.Req = Req]]
           /\ UNCHANGED <<returned, Fatal>>
        \/ /\ Req.Op = "LoadNameBatch"
           /\ thr' = [thr EXCEPT ![t] =
                        [IdleThread EXCEPT !.pc = "BatchLock", !.N = nOps + 1, !.Req = Req]]
           /\ UNCHANGED <<returned, Fatal>>
    /\ PoolUnchanged
    /\ UNCHANGED <<bCasePreserving, ENames, Singleton, Held, BatchOwner>>

\* Find, the part under the display shard's read lock: the pool as the const
\* member function leaves it, and the identifier in the probed slot
PoolFindDisplay(P, Name) == [P |-> P, Id |-> PoolDisplayFind(P, Name)]

\* A faulty Find: it interns what it does not find
PoolFindComparison_Interns(P, Name) ==
    With(PoolComparisonInsert(P, FNameValue(FALSE, Name)), LAMBDA R :
        [P |-> R.P, Id |-> R.Id])

\* Find, the part under the comparison shard's read lock
PoolFindComparison(P, Name) == [P |-> P, Id |-> PoolComparisonFind(P, Name)]

\* Store: DisplayShard.Find under the display shard's read lock
StoreDisplayFind(t) ==
    /\ Running /\ thr[t].pc = "StoreDisplayFind"
    /\ \E Existing \in {PoolDisplayFind(Pool, thr[t].View)} :
          IF Existing # 0
          THEN Finish(t, AddResult(Pool, Existing, thr[t].Number))
          ELSE /\ thr' = [thr EXCEPT ![t].pc = "StoreComparisonInsert"]
               /\ UNCHANGED returned
    /\ PoolUnchanged
    /\ UNCHANGED <<bCasePreserving, ENames, Singleton, Held, BatchOwner, Fatal, nOps>>

\* Store: ComparisonShards[...].Insert under the shard's write lock (the allocator
\* lock inside it), then the choice between the two display paths
StoreComparisonInsert(t) ==
    /\ Running /\ thr[t].pc = "StoreComparisonInsert"
    /\ BatchOwner = NoThread
    /\ \E C \in {PoolComparisonInsert(Pool, FNameValue(FALSE, thr[t].View))} :
          IF C.Fatal # ""
          THEN Abort(C.Fatal) /\ SetPool(C.P)
          ELSE /\ SetPool(C.P)
               /\ Fatal' = Fatal
               /\ IF ~bCasePreserving
                  THEN Finish(t, AddResult(C.P, C.Id, thr[t].Number))
                  ELSE /\ thr' = [thr EXCEPT
                              ![t].pc = IF CanUseComparisonIdAsDisplayId(C.P, C.Id, C.bAdded,
                                                                         thr[t].View)
                                        THEN "StoreInsertExisting" ELSE "StoreDisplayInsert",
                              ![t].CmpId = C.Id]
                       /\ UNCHANGED returned
    /\ UNCHANGED <<bCasePreserving, ENames, Singleton, Held, BatchOwner, nOps>>

\* Store: DisplayShard.InsertExistingEntry under the display shard's write lock
StoreInsertExisting(t) ==
    /\ Running /\ thr[t].pc = "StoreInsertExisting"
    /\ \E R \in {PoolInsertExisting(Pool, thr[t].View, thr[t].CmpId)} :
          IF R.Fatal # ""
          THEN Abort(R.Fatal) /\ SetPool(R.P)
          ELSE /\ SetPool(R.P)
               /\ Fatal' = Fatal
               /\ Finish(t, AddResult(R.P, R.Id, thr[t].Number))
    /\ UNCHANGED <<bCasePreserving, ENames, Singleton, Held, BatchOwner, nOps>>

\* Store: DisplayShard.Insert under the display shard's write lock; it needs the
\* allocator lock only when it has to create the entry
StoreDisplayInsert(t) ==
    /\ Running /\ thr[t].pc = "StoreDisplayInsert"
    /\ \E R \in {PoolDisplayInsert(Pool, thr[t].View, thr[t].CmpId)} :
          /\ (R.bAdded \/ R.Fatal # "") => BatchOwner = NoThread
          /\ IF R.Fatal # ""
             THEN Abort(R.Fatal) /\ SetPool(R.P)
             ELSE /\ SetPool(R.P)
                  /\ Fatal' = Fatal
                  /\ Finish(t, AddResult(R.P, R.Id, thr[t].Number))
    /\ UNCHANGED <<bCasePreserving, ENames, Singleton, Held, BatchOwner, nOps>>

\* Find: DisplayShards[...].Find under the display shard's read lock
FindDisplay(t) ==
    /\ Running /\ thr[t].pc = "FindDisplay"
    /\ \E R \in {PoolFindDisplay(Pool, thr[t].View)} :
          /\ SetPool(R.P)
          /\ IF R.Id # 0
             THEN Finish(t, FindResult(R.P, R.Id, thr[t].Number))
             ELSE /\ thr' = [thr EXCEPT ![t].pc = "FindComparison"]
                  /\ UNCHANGED returned
    /\ UNCHANGED <<bCasePreserving, ENames, Singleton, Held, BatchOwner, Fatal, nOps>>

\* Find: ComparisonShards[...].Find under the shard's read lock
FindComparison(t) ==
    /\ Running /\ thr[t].pc = "FindComparison"
    /\ BatchOwner = NoThread
    /\ \E R \in {PoolFindComparison(Pool, thr[t].View)} :
          /\ SetPool(R.P)
          /\ Finish(t, FindResult(R.P, R.Id, thr[t].Number))
    /\ UNCHANGED <<bCasePreserving, ENames, Singleton, Held, BatchOwner, Fatal, nOps>>

\* FNamePool::Reserve: Entries.ReserveBlocks under the allocator's write lock,
\* then the test NumEntries() < InNumEntries
ReserveBlocksStep(t) ==
    /\ Running /\ thr[t].pc = "ReserveBlocks"
    /\ BatchOwner = NoThread
    /\ Entries' = ReserveBlocks(Entries, thr[t].Req.NumBytes \div BlockSizeBytes + 1)
    /\ IF NumEntries(Pool) < thr[t].Req.NumEntries
       THEN thr' = [thr EXCEPT ![t].pc = "ReserveShards", ![t].Idx = 0]
       ELSE thr' = [thr EXCEPT ![t] = IdleThread]
    /\ UNCHANGED <<bCasePreserving, ENames, Singleton, Held, ComparisonShards, DisplayShards, BatchOwner, Fatal,
                   returned, nOps>>

\* the shards FNamePool::Reserve walks: the display shards (when case is
\* preserved), then the comparison shards
ReserveSteps == IF bCasePreserving THEN 2 * FNamePoolShards ELSE FNamePoolShards

\* FNamePool::Reserve: Shard.Reserve(NumEntriesPerShard) of the next shard, under
\* that shard's write lock
ReserveShardStep(t) ==
    /\ Running /\ thr[t].pc = "ReserveShards"
    /\ LET NumEntriesPerShard == thr[t].Req.NumEntries \div FNamePoolShards + 1
           bDisplay == bCasePreserving /\ thr[t].Idx < FNamePoolShards
           K == (thr[t].Idx % FNamePoolShards) + 1
       IN /\ IF bDisplay
             THEN /\ DisplayShards' = [DisplayShards EXCEPT
                        ![K] = ShardReserve(TRUE, @, Entries.Mem, NumEntriesPerShard)]
                  /\ UNCHANGED ComparisonShards
             ELSE /\ BatchOwner = NoThread
                  /\ ComparisonShards' = [ComparisonShards EXCEPT
                        ![K] = ShardReserve(FALSE, @, Entries.Mem, NumEntriesPerShard)]
                  /\ UNCHANGED DisplayShards
          /\ IF thr[t].Idx + 1 = ReserveSteps
             THEN thr' = [thr EXCEPT ![t] = IdleThread]
             ELSE thr' = [thr EXCEPT ![t].Idx = @ + 1]
    /\ UNCHANGED <<bCasePreserving, ENames, Singleton, Held, Entries, BatchOwner, Fatal, returned, nOps>>

\* LoadNameBatch: FNamePool::BatchLock, every comparison shard lock and then the
\* allocator lock
BatchLockStep(t) ==
    /\ Running /\ thr[t].pc = "BatchLock"
    /\ BatchOwner = NoThread
    /\ BatchOwner' = t
    /\ thr' = [thr EXCEPT ![t].pc = "BatchStore", ![t].Idx = 1]
    /\ PoolUnchanged
    /\ UNCHANGED <<bCasePreserving, ENames, Singleton, Held, Fatal, returned, nOps>>

\* BatchLoadNameWithHash / BatchLoadNameWithoutHash: the value handed to BatchStore
BatchValue(Name, bHash) ==
    LET View == FNameStringView(Name.Str, Name.bIsUtf16)
    IN IF bHash
       THEN FNameValueWithHash(View, FNameHash(Name.Str, Name.bIsUtf16,
                                    GenerateLowerCaseHash(Name.Str, Name.bIsUtf16)))
       ELSE FNameValueWithHash(View, HashName(FALSE, View))

\* BatchLoadNameWithHash / BatchLoadNameWithoutHash: one BatchStore
\* (Insert<FNullScopeLock>), with the view stored and whether its text was absent
BatchStore(P, Name, bHash) ==
    With(BatchValue(Name, bHash), LAMBDA Value :
    With(PoolComparisonInsert(P, Value), LAMBDA R :
        [P |-> R.P, Id |-> R.Id, Fatal |-> R.Fatal, Name |-> Value.Name,
         Absent |-> IsAbsent(P, Value.Name)]))

\* LoadNameBatch: the next name of the batch, under the batch lock; the
\* FNameEntryId it yields is both identifiers of the loaded name
BatchStoreStep(t) ==
    /\ Running /\ thr[t].pc = "BatchStore"
    /\ BatchOwner = t
    /\ thr[t].Idx <= Len(thr[t].Req.Names)
    /\ \E C \in {BatchStore(Pool, thr[t].Req.Names[thr[t].Idx], thr[t].Req.bHash)} :
          IF C.Fatal # ""
          THEN Abort(C.Fatal) /\ SetPool(C.P)
          ELSE /\ SetPool(C.P)
               /\ Fatal' = Fatal
               /\ thr' = [thr EXCEPT ![t].Idx = @ + 1]
               /\ returned' = returned \cup
                      {Ret(thr[t].N, thr[t].Req, C.Name, MakeFName(C.Id, C.Id, NAME_NO_NUMBER_INTERNAL),
                           C.Absent)}
    /\ UNCHANGED <<bCasePreserving, ENames, Singleton, Held, BatchOwner, nOps>>

\* LoadNameBatch: FNamePool::BatchUnlock after the last name
BatchUnlockStep(t) ==
    /\ Running /\ thr[t].pc = "BatchStore"
    /\ BatchOwner = t
    /\ thr[t].Idx > Len(thr[t].Req.Names)
    /\ BatchOwner' = NoThread
    /\ thr' = [thr EXCEPT ![t] = IdleThread]
    /\ PoolUnchanged
    /\ UNCHANGED <<bCasePreserving, ENames, Singleton, Held, Fatal, returned, nOps>>

-----------------------------------------------------------------------------
(* The specification: the state after FNamePool::FNamePool, for either build *)

\* bNamePoolInitialized; whether NamePoolData holds a pool whose constructor has
\* returned; constructor and destructor runs since the last TearDown
ConstructedSingleton ==
    [bNamePoolInitialized |-> TRUE, bBuilt |-> TRUE, Constructions |-> 1, Destructions |-> 0]

\* the process after FNamePool::FNamePool has run on Table
InitTable(Table) ==
    /\ bCasePreserving \in BOOLEAN
    /\ \E R \in {FNamePoolCtor(Table)} :
          /\ Entries = R.P.Entries
          /\ ComparisonShards = R.P.ComparisonShards
          /\ DisplayShards = R.P.DisplayShards
          /\ ENames = R.ENames
          /\ Fatal = R.Fatal
    /\ BatchOwner = NoThread
    /\ thr = [t \in Threads |-> IdleThread]
    /\ Held = [t \in Threads |-> <<>>]
    /\ Singleton = ConstructedSingleton
    /\ returned = {}
    /\ nOps = 0

Init == InitTable(HardcodedTable)

Next ==
    \E t \in Threads :
        \/ Call(t, Requests, MaxOps)
        \/ StoreDisplayFind(t)
        \/ StoreComparisonInsert(t)
        \/ StoreInsertExisting(t)
        \/ StoreDisplayInsert(t)
        \/ FindDisplay(t)
        \/ FindComparison(t)
        \/ ReserveBlocksStep(t)
        \/ ReserveShardStep(t)
        \/ BatchLockStep(t)
        \/ BatchStoreStep(t)
        \/ BatchUnlockStep(t)

Spec == Init /\ [][Next]_vars

\* One thread, one call after the other: the colliding texts
SeqThread == CHOOSE t \in Threads : \A u \in Threads : t <= u

NextSeq ==
    \/ Call(SeqThread, SeqRequests, MaxSeqOps)
    \/ StoreDisplayFind(SeqThread)
    \/ StoreComparisonInsert(SeqThread)
    \/ StoreInsertExisting(SeqThread)
    \/ StoreDisplayInsert(SeqThread)
    \/ FindDisplay(SeqThread)
    \/ FindComparison(SeqThread)
    \/ ReserveBlocksStep(SeqThread)
    \/ ReserveShardStep(SeqThread)
    \/ BatchLockStep(SeqThread)
    \/ BatchStoreStep(SeqThread)
    \/ BatchUnlockStep(SeqThread)

SpecSeq == Init /\ [][NextSeq]_vars

\* One thread, one call after the other: the spellings of the no-name
NextSentinel ==
    \/ Call(SeqThread, SentinelRequests, MaxOps)
    \/ StoreDisplayFind(SeqThread)
    \/ StoreComparisonInsert(SeqThread)
    \/ StoreInsertExisting(SeqThread)
    \/ StoreDisplayInsert(SeqThread)
    \/ FindDisplay(SeqThread)
    \/ FindComparison(SeqThread)

SpecSentinel == Init /\ [][NextSentinel]_vars

-----------------------------------------------------------------------------
(* The constructors' argument handling on its own: what each overload hands  *)
(* to Make(View, FindType, InternalNumber), which interns View and puts     *)
(* InternalNumber into the handle unchanged.                                 *)

\* calls made in one run of the constructor specification
MaxCtorOps == 2

\* the characters of a sequence of decimal digits
DigitChars(ds) == [i \in 1..Len(ds) |-> 48 + ds[i]]

Int32Max_Digits == <<2, 1, 4, 7, 4, 8, 3, 6, 4, 7>>

ShortDigits == {<<>>, <<0>>, <<1>>, <<0, 0>>, <<0, 1>>, <<1, 0>>}

\* 2147483646, 2147483647, 2147483648, 4000000000 (the values of
\* FName::AutoTest), the largest number of ten digits and one of eleven
BoundaryDigits ==
    {<<2, 1, 4, 7, 4, 8, 3, 6, 4, 6>>, Int32Max_Digits, <<2, 1, 4, 7, 4, 8, 3, 6, 4, 8>>,
     <<4, 0, 0, 0, 0, 0, 0, 0, 0, 0>>, <<9, 9, 9, 9, 9, 9, 9, 9, 9, 9>>,
     <<1, 0, 0, 0, 0, 0, 0, 0, 0, 0, 0>>}

Str_T == <<84>>
Str_T_1 == <<84, 95, 49>>
Str_Wide_T == <<228>>

SuffixTexts ==
    {Stem \o <<95>> \o DigitChars(ds) :
        Stem \in {<<>>, Str_T}, ds \in ShortDigits \cup BoundaryDigits}
    \cup {Str_T_1 \o <<95>> \o DigitChars(ds) : ds \in {<<0>>, <<0, 0>>}}
    \cup {Str_T \o DigitChars(ds) : ds \in {<<1>>, <<1, 0>>}}

WideSuffixTexts ==
    {Stem \o <<95>> \o DigitChars(ds) :
        Stem \in {Str_T, Str_Wide_T},
        ds \in {<<0>>, <<0, 1>>, <<2, 1, 4, 7, 4, 8, 3, 6, 4, 6>>, Int32Max_Digits}}

\* buffers read with an explicit length: "T_01", "T_1_02", and (WIDECHAR only)
\* "T_1" followed by a wide character
LenBuffers == {<<84, 95, 48, 49>>, <<84, 95, 49, 95, 48, 50>>}
WideLenBuffers == LenBuffers \cup {<<84, 95, 49, 228>>}

\* a buffer of S with an explicit length that stays within it
WithLengths(S) == {R \in S \X (0..NAME_SIZE) : R[2] <= Len(R[1])}

Prefixes(S) == {SubSeq(R[1], 1, R[2]) : R \in WithLengths(S)}

NumberTexts == {<<>>, Str_T, Str_T_1, <<84, 95, 48, 49>>}
InNumbers == {NAME_NO_NUMBER_INTERNAL, 1, 2}

CtorRequests ==
    {CtorReq("Name", Buf, FALSE, FALSE, 0, 0, FALSE) : Buf \in SuffixTexts \cup Prefixes(LenBuffers)}
    \cup {CtorReq("Name", Buf, FALSE, TRUE, 0, 0, FALSE) :
            Buf \in WideSuffixTexts \cup Prefixes(WideLenBuffers \ LenBuffers)}
    \cup {CtorReq("Name", <<>>, TRUE, bWideBuf, 0, 0, FALSE) : bWideBuf \in BOOLEAN}
    \cup {CtorReq("LenName", R[1], FALSE, FALSE, R[2], 0, FALSE) :
            R \in WithLengths(LenBuffers)}
    \cup {CtorReq("LenName", R[1], FALSE, TRUE, R[2], 0, FALSE) :
            R \in WithLengths(WideLenBuffers \ LenBuffers)}
    \cup {CtorReq("NameNumber", Buf, FALSE, FALSE, 0, n, FALSE) :
            Buf \in NumberTexts, n \in InNumbers}
    \cup {CtorReq("NameNumber", Str_T_1, FALSE, TRUE, 0, n, FALSE) : n \in InNumbers}
    \cup {CtorReq("LenNameNumber", R[1], FALSE, FALSE, R[2], n, FALSE) :
            R \in WithLengths({Str_T_1}), n \in InNumbers}
    \cup {CtorReq("NameNumberSplit", Buf, FALSE, TRUE, 0, n, b) :
            Buf \in {<<>>, Str_T_1}, n \in InNumbers, b \in BOOLEAN}

\* One constructor call up to its call of Make: the arguments are turned into a
\* view and an internal number (or into FName() at once, for an empty text)
CtorCall ==
    /\ nOps < MaxCtorOps
    /\ nOps' = nOps + 1
    /\ \E Req \in CtorRequests : \E C \in {Construct(Req)} :
          returned' = returned \cup
              {[Req |-> Req, Immediate |-> C.Immediate, View |-> C.View, Number |-> C.Number]}
    /\ PoolUnchanged
    /\ UNCHANGED <<bCasePreserving, ENames, Singleton, Held, BatchOwner, Fatal, thr>>

NextCtor == CtorCall

SpecCtor == Init /\ [][NextCtor]_vars

-----------------------------------------------------------------------------
(* The hard-coded names: construction of the pool over several tables, then *)
(* one thread that interns, finds and asks for the EName of identifiers     *)

\* calls started in one run of the hard-coded-name specifications
MaxENameOps == 3

Str_MAX == <<77, 65, 88>>

\* REGISTER_NAME tables: the stand-in list; the list with an unused index
TableWithGap == HardcodedTable \o <<[Num |-> 3, Name |-> Str_ab]>>
UniqueTables == {HardcodedTable, TableWithGap}

\* tables that compile as well: two names that differ in letter case only, the
\* no-name under a second index, two names with the same enum value
TableCaseVariant == HardcodedTable \o <<[Num |-> 2, Name |-> Str_MAX]>>
TableNoneVariant == HardcodedTable \o <<[Num |-> 2, Name |-> Str_NONE]>>
TableSameIndex == HardcodedTable \o <<[Num |-> 1, Name |-> Str_ab]>>
StartupTables ==
    UniqueTables \cup {TableCaseVariant, TableNoneVariant, TableSameIndex}

ENameRequests ==
    {FNameReq("Add", Buf, FALSE, FALSE) : Buf \in {Str_Max, Str_MAX, Str_ba}}
    \cup {FNameReq("Find", Buf, FALSE, FALSE) : Buf \in {Str_MAX, Str_ab}}

\* every value an FNameEntryId can take
EntryIds == 0..(FNameMaxBlocks * FNameBlockOffsets - 1)

\* FName::ToEName of a handle whose comparison identifier is Id: FindEName(Id)
ToENameCall ==
    /\ Running /\ thr[SeqThread].pc = "Idle" /\ nOps < MaxENameOps
    /\ nOps' = nOps + 1
    /\ \E Id \in DOMAIN Entries.Mem \cup {0} :
          returned' = returned \cup
              {[N |-> nOps + 1, Op |-> "ToEName", Id |-> Id, EName |-> FindEName(Id)]}
    /\ PoolUnchanged
    /\ UNCHANGED <<bCasePreserving, ENames, Singleton, Held, BatchOwner, Fatal, thr>>

NextENames ==
    \/ Call(SeqThread, ENameRequests, MaxENameOps)
    \/ StoreDisplayFind(SeqThread)
    \/ StoreComparisonInsert(SeqThread)
    \/ StoreInsertExisting(SeqThread)
    \/ StoreDisplayInsert(SeqThread)
    \/ FindDisplay(SeqThread)
    \/ FindComparison(SeqThread)
    \/ ToENameCall

\* construction over any of the tables
InitStartup == \E Table \in StartupTables : InitTable(Table)
SpecStartup == InitStartup /\ [][NextENames]_vars

\* construction over the tables whose names intern to distinct identifiers
InitENames == \E Table \in UniqueTables : InitTable(Table)
SpecENames == InitENames /\ [][NextENames]_vars

-----------------------------------------------------------------------------
(* The locks.  Every shard and the allocator own an FRWLock; here each scope *)
(* of a lock is taken apart into the step that acquires it and the steps    *)
(* made under it.                                                           *)

\* calls started in one run of the lock specifications
MaxLockOps == 2

\* the FRWLock of a shard (k + 1 for shard k) and that of the allocator
ShardLock(bDisplay, K) == [Kind |-> IF bDisplay THEN "Display" ELSE "Comparison", Idx |-> K]
EntriesLock == [Kind |-> "Entries", Idx |-> 0]

IsShardLock(L) == L.Kind # "Entries"

HeldLocks(t) == {Held[t][i].Lock : i \in DOMAIN Held[t]}
Holders(L) == {u \in Threads : L \in HeldLocks(u)}
Writers(L) == {u \in Threads : \E i \in DOMAIN Held[u] : Held[u][i].Lock = L /\ Held[u][i].bWrite}

\* FRWLock::WriteLock / ReadLock returns: nobody holds the lock, or (to read)
\* nobody writes
CanLock(L, bWrite) == IF bWrite THEN Holders(L) = {} ELSE Writers(L) = {}

Acquire(t, L, bWrite) ==
    /\ CanLock(L, bWrite)
    /\ Held' = [Held EXCEPT ![t] = Append(@, [Lock |-> L, bWrite |-> bWrite])]

\* FRWLock::WriteUnlock / ReadUnlock
Release(t, L) == Held' = [Held EXCEPT ![t] = SelectSeq(@, LAMBDA h : h.Lock # L)]

\* A faulty BatchLock: the allocator lock first
BatchLockOrder_EntriesFirst ==
    [i \in 1..(FNamePoolShards + 1) |->
        IF i = 1 THEN EntriesLock ELSE ShardLock(FALSE, i - 1)]

\* A faulty BatchLock: the allocator lock is not taken
BatchLockOrder_ShardsOnly == [i \in 1..FNamePoolShards |-> ShardLock(FALSE, i)]

\* FNamePool::BatchLock: the comparison shards in the order of the array, then
\* "Acquire entry allocator lock after shard locks"
BatchLockOrder ==
    [i \in 1..(FNamePoolShards + 1) |->
        IF i <= FNamePoolShards THEN ShardLock(FALSE, i) ELSE EntriesLock]

\* A faulty BatchUnlock: in the order of BatchLock
BatchUnlockOrder_AsLocked == BatchLockOrder

\* FNamePool::BatchUnlock: Entries.BatchUnlock(), then the comparison shards
\* from the last to the first
BatchUnlockOrder ==
    [i \in 1..(FNamePoolShards + 1) |->
        IF i = 1 THEN EntriesLock ELSE ShardLock(FALSE, FNamePoolShards + 2 - i)]

\* A faulty Insert: the slot is claimed before the entry is written
InsertOrder_ClaimFirst == <<"ClaimSlot", "InitEntry">>

\* Insert after Allocate has returned: Create writes the entry, then ClaimSlot
InsertOrder == <<"InitEntry", "ClaimSlot">>

DebugDumpReq == [ReserveReq(0, 0) EXCEPT !.Op = "DebugDump"]

\* the calls of the lock specifications
LockRequests ==
    {FNameReq("Add", Buf, FALSE, FALSE) : Buf \in {Str_ab, Str_MAX}}
    \cup {FNameReq("Find", Str_ab, FALSE, FALSE)}
    \cup ReserveRequests
    \cup {DebugDumpReq}
    \cup {LoadNameBatchReq(<<[Str |-> Str_AB, bIsUtf16 |-> FALSE]>>, TRUE)}

\* the value Insert is called with: the comparison value, or the display value
\* with DisplayValue.ComparisonId set
InsertValue(t) ==
    IF thr[t].bDisplay
    THEN [FNameValue(TRUE, thr[t].View) EXCEPT !.ComparisonId = thr[t].CmpId]
    ELSE FNameValue(FALSE, thr[t].View)

\* the shard FNamePool::Reserve is at
ReserveIsDisplay(t) == bCasePreserving /\ thr[t].Idx < FNamePoolShards
ReserveShard(t) == (thr[t].Idx % FNamePoolShards) + 1

\* the positions at which a thread asks for a lock
LockPcs == {"StoreDisplayFindLock", "FindDisplayLock", "FindComparisonLock", "InsertLock",
            "InsertExistingLock", "AllocateLock", "ReserveBlocksLock", "ReserveShardLock",
            "DebugDumpLock", "BatchLock"}

\* the lock thread t asks for at its position, and whether to write
Wanted(t) ==
    LET pc == thr[t].pc
        Display == ShardLock(TRUE, FNameValue(TRUE, thr[t].View).Hash.ShardIndex + 1)
    IN CASE pc \in {"StoreDisplayFindLock", "FindDisplayLock"} ->
                [Lock |-> Display, bWrite |-> FALSE]
         [] pc = "FindComparisonLock" ->
                [Lock |-> ShardLock(FALSE, FNameValue(FALSE, thr[t].View).Hash.ShardIndex + 1),
                 bWrite |-> FALSE]
         [] pc = "InsertLock" ->
                [Lock |-> ShardLock(thr[t].bDisplay, InsertValue(t).Hash.ShardIndex + 1),
                 bWrite |-> TRUE]
         [] pc = "InsertExistingLock" -> [Lock |-> Display, bWrite |-> TRUE]
         [] pc \in {"AllocateLock", "ReserveBlocksLock"} ->
                [Lock |-> EntriesLock, bWrite |-> TRUE]
         [] pc = "ReserveShardLock" ->
                [Lock |-> ShardLock(ReserveIsDisplay(t), ReserveShard(t)), bWrite |-> TRUE]
         [] pc = "DebugDumpLock" -> [Lock |-> EntriesLock, bWrite |-> FALSE]
         [] pc = "BatchLock" -> [Lock |-> BatchLockOrder[thr[t].Idx], bWrite |-> TRUE]

\* where a thread stands once it has the lock
AfterLock(t) ==
    LET pc == thr[t].pc
    IN CASE pc = "StoreDisplayFindLock" -> "StoreDisplayFindLocked"
         [] pc = "FindDisplayLock" -> "FindDisplayLocked"
         [] pc = "FindComparisonLock" -> "FindComparisonLocked"
         [] pc = "InsertLock" -> "InsertLocked"
         [] pc = "InsertExistingLock" -> "InsertExistingLocked"
         [] pc = "AllocateLock" -> "AllocateLocked"
         [] pc = "ReserveBlocksLock" -> "ReserveBlocksLocked"
         [] pc = "ReserveShardLock" -> "ReserveShardLocked"
         [] pc = "DebugDumpLock" -> "DebugDumpLocked"
         [] pc = "BatchLock" ->
                IF thr[t].Idx < Len(BatchLockOrder) THEN "BatchLock"
                ELSE IF thr[t].Req.Names = <<>> THEN "BatchUnlock" ELSE "BatchStoreLocked"

\* the first lock of Make(View, FindType, Number)
LockedEntry(FindType) ==
    IF FindType = "Add"
    THEN (IF bCasePreserving THEN "StoreDisplayFindLock" ELSE "InsertLock")
    ELSE (IF bCasePreserving THEN "FindDisplayLock" ELSE "FindComparisonLock")

\* Thread t enters the name API with one of LockRequests
LockedCall(t) ==
    /\ Running /\ thr[t].pc = "Idle" /\ nOps < MaxLockOps
    /\ nOps' = nOps + 1
    /\ \E Req \in LockRequests :
        \/ /\ Req.Op = "FName"
           /\ \E C \in {FNameCtor(Req)} :
                 IF C.Immediate
                 THEN /\ returned' = returned \cup
                            {Ret(nOps + 1, Req, C.View, C.Result, FALSE)}
                      /\ UNCHANGED <<thr, Fatal>>
                 ELSE IF C.View.Len >= NAME_SIZE
                 THEN Abort("NAME_SIZE")
                 ELSE /\ thr' = [thr EXCEPT ![t] =
                            [IdleThread EXCEPT
                                !.pc = LockedEntry(Req.FindType), !.N = nOps + 1,
                                !.Req = Req, !.View = C.View, !.Number = C.Number,
                                !.Absent = IsAbsent(Pool, C.View)]]
                      /\ UNCHANGED <<returned, Fatal>>
        \/ /\ Req.Op \in {"Reserve", "DebugDump", "LoadNameBatch"}
           /\ thr' = [thr EXCEPT ![t] =
                        [IdleThread EXCEPT
                            !.pc = CASE Req.Op = "Reserve" -> "ReserveBlocksLock"
                                     [] Req.Op = "DebugDump" -> "DebugDumpLock"
                                     [] Req.Op = "LoadNameBatch" -> "BatchLock",
                            !.N = nOps + 1, !.Req = Req, !.Idx = 1]]
           /\ UNCHANGED <<returned, Fatal>>
    /\ PoolUnchanged
    /\ UNCHANGED <<bCasePreserving, ENames, Singleton, Held, BatchOwner>>

\* the lock thread t asks for is granted
LockStep(t) ==
    /\ Running /\ thr[t].pc \in LockPcs
    /\ \E W \in {Wanted(t)} : Acquire(t, W.Lock, W.bWrite)
    /\ thr' = [thr EXCEPT ![t].pc = AfterLock(t),
                          ![t].Idx = IF thr[t].pc # "BatchLock" THEN @
                                     ELSE IF @ < Len(BatchLockOrder) THEN @ + 1 ELSE 1]
    /\ PoolUnchanged
    /\ UNCHANGED <<bCasePreserving, ENames, Singleton, BatchOwner, Fatal, returned, nOps>>

\* Store: DisplayShard.Find, the probe under the read lock and its release
StoreDisplayFindLocked(t) ==
    /\ Running /\ thr[t].pc = "StoreDisplayFindLocked"
    /\ \E Existing \in {PoolDisplayFind(Pool, thr[t].View)} :
          IF Existing # 0
          THEN Finish(t, AddResult(Pool, Existing, thr[t].Number))
          ELSE /\ thr' = [thr EXCEPT ![t].pc = "InsertLock", ![t].bDisplay = FALSE]
               /\ UNCHANGED returned
    /\ Release(t, ShardLock(TRUE, FNameValue(TRUE, thr[t].View).Hash.ShardIndex + 1))
    /\ PoolUnchanged
    /\ UNCHANGED <<bCasePreserving, ENames, Singleton, BatchOwner, Fatal, nOps>>

\* Store after an Insert has returned Id: the comparison insert is followed by one
\* of the two display paths, the display insert by the return
AfterInsert(t, P, Id, bAdded) ==
    IF thr[t].bDisplay \/ ~bCasePreserving
    THEN Finish(t, AddResult(P, Id, thr[t].Number))
    ELSE \E bCanUse \in {CanUseComparisonIdAsDisplayId(P, Id, bAdded, thr[t].View)} :
            /\ thr' = [thr EXCEPT
                          ![t].pc = IF bCanUse THEN "InsertExistingLock" ELSE "InsertLock",
                          ![t].bDisplay = ~bCanUse,
                          ![t].CmpId = Id]
            /\ UNCHANGED returned

\* the shard of the Insert thread t is in, and the slot its probe stops at
InsertShardIndex(t) == InsertValue(t).Hash.ShardIndex + 1
InsertShard(t) ==
    IF thr[t].bDisplay THEN DisplayShards[InsertShardIndex(t)]
    ELSE ComparisonShards[InsertShardIndex(t)]
InsertSlot(t) == ProbeValue(thr[t].bDisplay, InsertShard(t), Entries.Mem, InsertValue(t))

\* Insert: Probe(Value) under the write lock; a used slot is returned at once
InsertLocked(t) ==
    /\ Running /\ thr[t].pc = "InsertLocked"
    /\ \E Slot \in {InsertShard(t).Slots[InsertSlot(t)]} :
          IF Used(Slot)
          THEN /\ AfterInsert(t, Pool, GetId(Slot), FALSE)
               /\ Release(t, ShardLock(thr[t].bDisplay, InsertShardIndex(t)))
          ELSE /\ thr' = [thr EXCEPT ![t].pc = "AllocateLock"]
               /\ UNCHANGED <<Held, returned>>
    /\ PoolUnchanged
    /\ UNCHANGED <<bCasePreserving, ENames, Singleton, BatchOwner, Fatal, nOps>>

\* Create: Allocate under the allocator's write lock, released on return
AllocateLocked(t) ==
    /\ Running /\ thr[t].pc = "AllocateLocked"
    /\ \E R \in {Allocate(Entries, GetDataOffset + BytesWithoutTerminator(InsertValue(t).Name))} :
          /\ Entries' = R.A
          /\ IF R.Fatal
             THEN Abort("Allocate") /\ UNCHANGED Held
             ELSE /\ thr' = [thr EXCEPT ![t].pc = InsertOrder[1],
                                        ![t].NewId = HandleToId(R.Block, R.Offset)]
                  /\ Release(t, EntriesLock)
                  /\ UNCHANGED <<returned, Fatal>>
    /\ UNCHANGED <<bCasePreserving, ENames, Singleton, ComparisonShards, DisplayShards, BatchOwner, nOps>>

\* Insert, after a step of InsertOrder that leaves the pool as P: the next step,
\* or the end of the scope of the shard lock and the return of the new identifier
InsertContinue(t, Step, P) ==
    IF Step = InsertOrder[Len(InsertOrder)]
    THEN /\ AfterInsert(t, P, thr[t].NewId, TRUE)
         /\ Release(t, ShardLock(thr[t].bDisplay, InsertShardIndex(t)))
    ELSE /\ thr' = [thr EXCEPT ![t].pc = InsertOrder[Len(InsertOrder)]]
         /\ UNCHANGED <<Held, returned>>

\* Create: Entry.ComparisonId, Entry.Header and Entry.StoreName, on the memory
\* Allocate returned, outside the allocator lock
InitEntryStep(t) ==
    /\ Running /\ thr[t].pc = "InitEntry"
    /\ \E V \in {InsertValue(t)} :
       \E P \in {[Pool EXCEPT !.Entries.Mem =
                     (thr[t].NewId :> InitEntry(thr[t].NewId, V.Name, V.ComparisonId,
                                                V.Hash.EntryProbeHeader)) @@ @]} :
          /\ SetPool(P)
          /\ InsertContinue(t, "InitEntry", P)
    /\ UNCHANGED <<bCasePreserving, ENames, Singleton, BatchOwner, Fatal, nOps>>

\* Insert: ClaimSlot(Slot, FNameSlot(NewEntryId, ...)), ++NumCreatedEntries,
\* NumCreatedWideEntries += bIsWide
ClaimSlotStep(t) ==
    /\ Running /\ thr[t].pc = "ClaimSlot"
    /\ \E V \in {InsertValue(t)} :
          IF ~FNameSlotCheck(thr[t].NewId, V.Hash.SlotProbeHash)
          THEN Abort("FNameSlot") /\ PoolUnchanged /\ UNCHANGED Held
          ELSE \E S1 \in {ClaimSlot(thr[t].bDisplay, InsertShard(t), Entries.Mem, InsertSlot(t),
                                    FNameSlot(thr[t].NewId, V.Hash.SlotProbeHash))} :
               \E S2 \in {[S1 EXCEPT !.NumCreatedEntries = @ + 1,
                                     !.NumCreatedWideEntries =
                                         @ + (IF V.Name.bIsWide THEN 1 ELSE 0)]} :
               \E P \in {IF thr[t].bDisplay
                         THEN [Pool EXCEPT !.DisplayShards[InsertShardIndex(t)] = S2]
                         ELSE [Pool EXCEPT !.ComparisonShards[InsertShardIndex(t)] = S2]} :
                  /\ SetPool(P)
                  /\ Fatal' = Fatal
                  /\ InsertContinue(t, "ClaimSlot", P)
    /\ UNCHANGED <<bCasePreserving, ENames, Singleton, BatchOwner, nOps>>

\* Store: DisplayShard.InsertExistingEntry under the display shard's write lock
InsertExistingLocked(t) ==
    /\ Running /\ thr[t].pc = "InsertExistingLocked"
    /\ \E R \in {PoolInsertExisting(Pool, thr[t].View, thr[t].CmpId)} :
          /\ SetPool(R.P)
          /\ IF R.Fatal # ""
             THEN Abort(R.Fatal) /\ UNCHANGED Held
             ELSE /\ Fatal' = Fatal
                  /\ Finish(t, AddResult(R.P, R.Id, thr[t].Number))
                  /\ Release(t, ShardLock(TRUE, FNameValue(TRUE, thr[t].View).Hash.ShardIndex + 1))
    /\ UNCHANGED <<bCasePreserving, ENames, Singleton, BatchOwner, nOps>>

\* Find: DisplayShards[...].Find, the probe under the read lock and its release
FindDisplayLocked(t) ==
    /\ Running /\ thr[t].pc = "FindDisplayLocked"
    /\ \E Id \in {PoolDisplayFind(Pool, thr[t].View)} :
          IF Id # 0
          THEN Finish(t, FindResult(Pool, Id, thr[t].Number))
          ELSE /\ thr' = [thr EXCEPT ![t].pc = "FindComparisonLock"]
               /\ UNCHANGED returned
    /\ Release(t, ShardLock(TRUE, FNameValue(TRUE, thr[t].View).Hash.ShardIndex + 1))
    /\ PoolUnchanged
    /\ UNCHANGED <<bCasePreserving, ENames, Singleton, BatchOwner, Fatal, nOps>>

\* Find: ComparisonShards[...].Find, the probe under the read lock and its release
FindComparisonLocked(t) ==
    /\ Running /\ thr[t].pc = "FindComparisonLocked"
    /\ Finish(t, FindResult(Pool, PoolComparisonFind(Pool, thr[t].View), thr[t].Number))
    /\ Release(t, ShardLock(FALSE, FNameValue(FALSE, thr[t].View).Hash.ShardIndex + 1))
    /\ PoolUnchanged
    /\ UNCHANGED <<bCasePreserving, ENames, Singleton, BatchOwner, Fatal, nOps>>

\* FNamePool::Reserve: Entries.ReserveBlocks under the allocator's write lock
ReserveBlocksLocked(t) ==
    /\ Running /\ thr[t].pc = "ReserveBlocksLocked"
    /\ Entries' = ReserveBlocks(Entries, thr[t].Req.NumBytes \div BlockSizeBytes + 1)
    /\ Release(t, EntriesLock)
    /\ thr' = [thr EXCEPT ![t].pc = "ReserveTest"]
    /\ UNCHANGED <<bCasePreserving, ENames, Singleton, ComparisonShards, DisplayShards, BatchOwner, Fatal,
                   returned, nOps>>

\* FNamePool::Reserve: if (NumEntries() < InNumEntries), read under no lock
ReserveTest(t) ==
    /\ Running /\ thr[t].pc = "ReserveTest"
    /\ IF NumEntries(Pool) < thr[t].Req.NumEntries
       THEN thr' = [thr EXCEPT ![t].pc = "ReserveShardLock", ![t].Idx = 0]
       ELSE thr' = [thr EXCEPT ![t] = IdleThread]
    /\ PoolUnchanged
    /\ UNCHANGED <<bCasePreserving, ENames, Singleton, Held, BatchOwner, Fatal, returned, nOps>>

\* FNamePool::Reserve: Shard.Reserve(NumEntriesPerShard) under the shard's write lock
ReserveShardLocked(t) ==
    /\ Running /\ thr[t].pc = "ReserveShardLocked"
    /\ LET NumEntriesPerShard == thr[t].Req.NumEntries \div FNamePoolShards + 1
           K == ReserveShard(t)
       IN IF ReserveIsDisplay(t)
          THEN /\ DisplayShards' = [DisplayShards EXCEPT
                     ![K] = ShardReserve(TRUE, @, Entries.Mem, NumEntriesPerShard)]
               /\ UNCHANGED ComparisonShards
          ELSE /\ ComparisonShards' = [ComparisonShards EXCEPT
                     ![K] = ShardReserve(FALSE, @, Entries.Mem, NumEntriesPerShard)]
               /\ UNCHANGED DisplayShards
    /\ Release(t, ShardLock(ReserveIsDisplay(t), ReserveShard(t)))
    /\ IF thr[t].Idx + 1 = ReserveSteps
       THEN thr' = [thr EXCEPT ![t] = IdleThread]
       ELSE thr' = [thr EXCEPT ![t].pc = "ReserveShardLock", ![t].Idx = @ + 1]
    /\ UNCHANGED <<bCasePreserving, ENames, Singleton, Entries, BatchOwner, Fatal, returned, nOps>>

\* FNamePool::DebugDump: Entries.DebugDump walks the blocks under the allocator's
\* read lock; the array it fills is the caller's
DebugDumpLocked(t) ==
    /\ Running /\ thr[t].pc = "DebugDumpLocked"
    /\ Release(t, EntriesLock)
    /\ thr' = [thr EXCEPT ![t] = IdleThread]
    /\ PoolUnchanged
    /\ UNCHANGED <<bCasePreserving, ENames, Singleton, BatchOwner, Fatal, returned, nOps>>

\* LoadNameBatch: the next name of the batch, Insert<FNullScopeLock>: no lock is
\* asked for, neither the shard's nor the allocator's
BatchStoreLocked(t) ==
    /\ Running /\ thr[t].pc = "BatchStoreLocked"
    /\ \E C \in {BatchStore(Pool, thr[t].Req.Names[thr[t].Idx], thr[t].Req.bHash)} :
          /\ SetPool(C.P)
          /\ IF C.Fatal # ""
             THEN Abort(C.Fatal)
             ELSE /\ Fatal' = Fatal
                  /\ thr' = [thr EXCEPT
                        ![t].pc = IF thr[t].Idx = Len(thr[t].Req.Names)
                                  THEN "BatchUnlock" ELSE "BatchStoreLocked",
                        ![t].Idx = IF thr[t].Idx = Len(thr[t].Req.Names) THEN 1 ELSE @ + 1]
                  /\ returned' = returned \cup
                         {Ret(thr[t].N, thr[t].Req, C.Name,
                              MakeFName(C.Id, C.Id, NAME_NO_NUMBER_INTERNAL), C.Absent)}
    /\ UNCHANGED <<bCasePreserving, ENames, Singleton, Held, BatchOwner, nOps>>

\* LoadNameBatch: FNamePool::BatchUnlock, one WriteUnlock
BatchUnlockLocked(t) ==
    /\ Running /\ thr[t].pc = "BatchUnlock"
    /\ Release(t, BatchUnlockOrder[thr[t].Idx])
    /\ IF thr[t].Idx = Len(BatchUnlockOrder)
       THEN thr' = [thr EXCEPT ![t] = IdleThread]
       ELSE thr' = [thr EXCEPT ![t].Idx = @ + 1]
    /\ PoolUnchanged
    /\ UNCHANGED <<bCasePreserving, ENames, Singleton, BatchOwner, Fatal, returned, nOps>>

\* the steps of thread t
ThreadStep(t) ==
    \/ LockStep(t)
    \/ StoreDisplayFindLocked(t)
    \/ InsertLocked(t)
    \/ AllocateLocked(t)
    \/ InitEntryStep(t)
    \/ ClaimSlotStep(t)
    \/ InsertExistingLocked(t)
    \/ FindDisplayLocked(t)
    \/ FindComparisonLocked(t)
    \/ ReserveBlocksLocked(t)
    \/ ReserveTest(t)
    \/ ReserveShardLocked(t)
    \/ DebugDumpLocked(t)
    \/ BatchStoreLocked(t)
    \/ BatchUnlockLocked(t)

NextLocks == \E t \in Threads : LockedCall(t) \/ ThreadStep(t)

SpecLocks == Init /\ [][NextLocks]_vars

\* every thread that can take a step eventually takes one
SpecLocksFair == SpecLocks /\ \A t \in Threads : WF_vars(ThreadStep(t))

-----------------------------------------------------------------------------
(* The singleton: GetNamePool constructs the pool in NamePoolData on the     *)
(* first call, FName::TearDown destroys it                                   *)

\* calls started in one run of the singleton specification
MaxPoolCalls == 4

\* static storage before the first call: bNamePoolInitialized and NamePoolData zeroed
RawShard == [Slots |-> <<>>, UsedSlots |-> 0, NumCreatedEntries |-> 0, NumCreatedWideEntries |-> 0]
RawPool ==
    [Entries |-> [NewAllocator EXCEPT !.Blocks = {}],
     ComparisonShards |-> [k \in 1..FNamePoolShards |-> RawShard],
     DisplayShards |-> [k \in 1..FNamePoolShards |-> RawShard]]
RawENames ==
    [Table |-> <<>>, ENameToEntry |-> [E \in ENameIndexes |-> 0],
     EntryToEName |-> <<>>, LargestEnameUnstableId |-> 0]

InitSingleton ==
    /\ bCasePreserving \in BOOLEAN
    /\ Entries = RawPool.Entries
    /\ ComparisonShards = RawPool.ComparisonShards
    /\ DisplayShards = RawPool.DisplayShards
    /\ ENames = RawENames
    /\ Fatal = ""
    /\ BatchOwner = NoThread
    /\ thr = [t \in Threads |-> IdleThread]
    /\ Held = [t \in Threads |-> <<>>]
    /\ Singleton = [bNamePoolInitialized |-> FALSE, bBuilt |-> FALSE,
                    Constructions |-> 0, Destructions |-> 0]
    /\ returned = {}
    /\ nOps = 0

\* IsInGameThread()
GameThread == CHOOSE t \in Threads : \A u \in Threads : t <= u

\* thread t gets the pool from GetNamePool: what it was handed
Obtain(t, bBuilt) ==
    /\ thr' = [thr EXCEPT ![t] = IdleThread]
    /\ returned' = returned \cup {[N |-> thr[t].N, Op |-> "GetNamePool", bBuilt |-> bBuilt]}

\* a public FName function is entered: GetNamePool() is called
GetNamePoolCall(t) ==
    /\ Running /\ thr[t].pc = "Idle" /\ nOps < MaxPoolCalls
    /\ nOps' = nOps + 1
    /\ thr' = [thr EXCEPT ![t] = [IdleThread EXCEPT !.pc = "GetNamePool", !.N = nOps + 1]]
    /\ PoolUnchanged
    /\ UNCHANGED <<bCasePreserving, ENames, Singleton, Held, BatchOwner, Fatal, returned>>

\* GetNamePool: if (bNamePoolInitialized) return the pool in NamePoolData
GetNamePoolTest(t) ==
    /\ Running /\ thr[t].pc = "GetNamePool"
    /\ IF Singleton.bNamePoolInitialized
       THEN Obtain(t, Singleton.bBuilt)
       ELSE thr' = [thr EXCEPT ![t].pc = "Construct"] /\ UNCHANGED returned
    /\ PoolUnchanged
    /\ UNCHANGED <<bCasePreserving, ENames, Singleton, Held, BatchOwner, Fatal, nOps>>

\* GetNamePool: new (NamePoolData) FNamePool, up to the registration of the
\* names: the members are initialised and the shards' slots allocated
ConstructBegin(t) ==
    /\ Running /\ thr[t].pc = "Construct"
    /\ Entries' = NewAllocator
    /\ ComparisonShards' = [k \in 1..FNamePoolShards |-> NewShard]
    /\ DisplayShards' = [k \in 1..FNamePoolShards |-> NewShard]
    /\ ENames' = RawENames
    /\ Singleton' = [Singleton EXCEPT !.bBuilt = FALSE, !.Constructions = @ + 1]
    /\ thr' = [thr EXCEPT ![t].pc = "Register"]
    /\ UNCHANGED <<bCasePreserving, Held, BatchOwner, Fatal, returned, nOps>>

\* GetNamePool: the rest of the constructor (register the names, make the
\* reverse mapping, verify); of two constructors at work in NamePoolData at
\* once, this is the outcome in which the later one's writes prevail
ConstructEnd(t) ==
    /\ Running /\ thr[t].pc = "Register"
    /\ \E R \in {FNamePoolCtor(HardcodedTable)} :
          /\ SetPool(R.P)
          /\ ENames' = R.ENames
          /\ Fatal' = R.Fatal
    /\ Singleton' = [Singleton EXCEPT !.bBuilt = \A u \in Threads \ {t} : thr[u].pc # "Register"]
    /\ thr' = [thr EXCEPT ![t].pc = "SetInitialized"]
    /\ UNCHANGED <<bCasePreserving, Held, BatchOwner, returned, nOps>>

\* GetNamePool: bNamePoolInitialized = true; return *Singleton
SetInitialized(t) ==
    /\ Running /\ thr[t].pc = "SetInitialized"
    /\ Singleton' = [Singleton EXCEPT !.bNamePoolInitialized = TRUE]
    /\ Obtain(t, Singleton.bBuilt)
    /\ PoolUnchanged
    /\ UNCHANGED <<bCasePreserving, ENames, Held, BatchOwner, Fatal, nOps>>

\* FName::TearDown, on the game thread: ~FNamePool on an initialised pool
TearDown ==
    /\ Running /\ thr[GameThread].pc = "Idle" /\ nOps < MaxPoolCalls
    /\ nOps' = nOps + 1
    /\ returned' = returned \cup
          {[N |-> nOps + 1, Op |-> "TearDown",
            bWasInitialized |-> Singleton.bNamePoolInitialized,
            Destructions |-> IF Singleton.bNamePoolInitialized THEN 1 ELSE 0]}
    /\ IF Singleton.bNamePoolInitialized
       THEN /\ Entries' = RawPool.Entries
            /\ ComparisonShards' = RawPool.ComparisonShards
            /\ DisplayShards' = RawPool.DisplayShards
            /\ Singleton' = [bNamePoolInitialized |-> FALSE, bBuilt |-> FALSE,
                             Constructions |-> 0, Destructions |-> Singleton.Destructions + 1]
       ELSE PoolUnchanged /\ UNCHANGED Singleton
    /\ UNCHANGED <<bCasePreserving, ENames, Held, BatchOwner, Fatal, thr>>

NextSingleton ==
    \/ \E t \in Threads :
          \/ GetNamePoolCall(t)
          \/ GetNamePoolTest(t)
          \/ ConstructBegin(t)
          \/ ConstructEnd(t)
          \/ SetInitialized(t)
    \/ TearDown

SpecSingleton == InitSingleton /\ [][NextSingleton]_vars

-----------------------------------------------------------------------------
(* The allocator on its own: threads that call Allocate<FWriteScopeLock>,     *)
(* and one that holds the allocator's batch lock and calls                    *)
(* Allocate<FNullScopeLock>, with requests up to and beyond a block           *)

\* calls started in one run of the allocator specification
MaxAllocOps == 3

\* the sizes requested: a byte, the largest narrow entry, a whole block, and a
\* byte more than a block
AllocSizes == {1, GetDataOffset + NAME_SIZE, BlockSizeBytes, BlockSizeBytes + 1}

AllocateReq(Bytes) == [ReserveReq(0, 0) EXCEPT !.Op = "Allocate", !.NumBytes = Bytes]

\* what Allocate returned to a caller: the handle, and the bytes of the current
\* block that the cursor passed over (from ByteOffset to CurrentByteCursor)
Allocated(N, Bytes, bBatch, A, R) ==
    [N |-> N, Op |-> "Allocate", Bytes |-> Bytes, bBatch |-> bBatch,
     Block |-> R.Block, Offset |-> R.Offset,
     Start |-> IF R.A.CurrentBlock = A.CurrentBlock THEN A.CurrentByteCursor ELSE 0,
     End |-> R.A.CurrentByteCursor]

\* K allocations of a whole block each, from a new allocator: the allocator and
\* the handles given out
RECURSIVE FillBlocks(_)
FillBlocks(K) ==
    IF K = 0 THEN [A |-> NewAllocator, Handles |-> {}]
    ELSE LET S == FillBlocks(K - 1)
             R == Allocate(S.A, BlockSizeBytes)
         IN [A |-> R.A, Handles |-> S.Handles \cup {Allocated(0 - K, BlockSizeBytes, FALSE, S.A, R)}]

\* the allocator is new, or all blocks but the last are in use
InitAlloc ==
    /\ bCasePreserving \in BOOLEAN
    /\ \E K \in {0, FNameMaxBlocks - 1} :
          /\ Entries = FillBlocks(K).A
          /\ returned = FillBlocks(K).Handles
    /\ ComparisonShards = [k \in 1..FNamePoolShards |-> NewShard]
    /\ DisplayShards = [k \in 1..FNamePoolShards |-> NewShard]
    /\ ENames = RawENames
    /\ Fatal = ""
    /\ BatchOwner = NoThread
    /\ thr = [t \in Threads |-> IdleThread]
    /\ Held = [t \in Threads |-> <<>>]
    /\ Singleton = ConstructedSingleton
    /\ nOps = 0

\* Allocate<ScopeLock>(Bytes) is called: Align, check(Bytes <= BlockSizeBytes),
\* which Allocate fails on the size alone, before ScopeLock _(Lock)
AllocateCall(t) ==
    /\ Running /\ thr[t].pc = "Idle" /\ nOps < MaxAllocOps
    /\ nOps' = nOps + 1
    /\ \E Bytes \in AllocSizes :
          IF Align(Bytes, Stride) > BlockSizeBytes /\ Allocate(Entries, Bytes).Fatal
          THEN /\ Fatal' = "Bytes <= BlockSizeBytes"
               /\ thr' = [thr EXCEPT ![t] = [IdleThread EXCEPT !.pc = "Allocate", !.N = nOps + 1,
                                                                !.Req = AllocateReq(Bytes)]]
          ELSE /\ Fatal' = Fatal
               /\ thr' = [thr EXCEPT ![t] =
                             [IdleThread EXCEPT !.pc = IF BatchOwner = t THEN "AllocateBody"
                                                                         ELSE "AllocateLock",
                                                !.N = nOps + 1, !.Req = AllocateReq(Bytes)]]
    /\ PoolUnchanged
    /\ UNCHANGED <<bCasePreserving, ENames, Singleton, Held, BatchOwner, returned>>

\* Allocate<FWriteScopeLock>: ScopeLock _(Lock)
AllocateLock(t) ==
    /\ Running /\ thr[t].pc = "AllocateLock"
    /\ Acquire(t, EntriesLock, TRUE)
    /\ thr' = [thr EXCEPT ![t].pc = "AllocateBody"]
    /\ PoolUnchanged
    /\ UNCHANGED <<bCasePreserving, ENames, Singleton, BatchOwner, Fatal, returned, nOps>>

\* Allocate: the scope of the lock, to the return of the handle (the end of the
\* scope of an FNullScopeLock is the return)
AllocateBody(t) ==
    /\ Running /\ thr[t].pc = "AllocateBody"
    /\ \E R \in {Allocate(Entries, thr[t].Req.NumBytes)} :
          /\ Entries' = R.A
          /\ IF R.Fatal
             THEN Abort("Allocate")
             ELSE /\ Fatal' = Fatal
                  /\ returned' = returned \cup
                         {Allocated(thr[t].N, thr[t].Req.NumBytes, BatchOwner = t, Entries, R)}
                  /\ thr' = [thr EXCEPT ![t] = IF BatchOwner = t THEN IdleThread
                                               ELSE [@ EXCEPT !.pc = "AllocateUnlock"]]
    /\ UNCHANGED <<bCasePreserving, ENames, Singleton, ComparisonShards, DisplayShards,
                   Held, BatchOwner, nOps>>

\* Allocate<FWriteScopeLock>: the end of the scope of the lock
AllocateUnlock(t) ==
    /\ Running /\ thr[t].pc = "AllocateUnlock"
    /\ Release(t, EntriesLock)
    /\ thr' = [thr EXCEPT ![t] = IdleThread]
    /\ PoolUnchanged
    /\ UNCHANGED <<bCasePreserving, ENames, Singleton, BatchOwner, Fatal, returned, nOps>>

\* FNameEntryAllocator::BatchLock: Lock.WriteLock()
AllocatorBatchLock(t) ==
    /\ Running /\ thr[t].pc = "Idle" /\ BatchOwner = NoThread /\ nOps < MaxAllocOps
    /\ Acquire(t, EntriesLock, TRUE)
    /\ BatchOwner' = t
    /\ PoolUnchanged
    /\ UNCHANGED <<bCasePreserving, ENames, Singleton, Fatal, thr, returned, nOps>>

\* FNameEntryAllocator::BatchUnlock: Lock.WriteUnlock()
AllocatorBatchUnlock(t) ==
    /\ Running /\ thr[t].pc = "Idle" /\ BatchOwner = t
    /\ Release(t, EntriesLock)
    /\ BatchOwner' = NoThread
    /\ PoolUnchanged
    /\ UNCHANGED <<bCasePreserving, ENames, Singleton, Fatal, thr, returned, nOps>>

NextAlloc ==
    \E t \in Threads :
        \/ AllocateCall(t)
        \/ AllocateLock(t)
        \/ AllocateBody(t)
        \/ AllocateUnlock(t)
        \/ AllocatorBatchLock(t)
        \/ AllocatorBatchUnlock(t)

SpecAlloc == InitAlloc /\ [][NextAlloc]_vars

-----------------------------------------------------------------------------
(* Batch serialization: SaveNameBatch and LoadNameBatch over byte streams.   *)
(* A TArray<uint8> is the sequence of its Num() bytes.                       *)

\* FNameHash::AlgorithmId (0xC1640000 in the source; scaled to 16 bits)
AlgorithmId == 49508

SizeofUint64 == 8
SizeofUtf16 == 2

\* the low Num bytes of Value, least significant first (INTEL_ORDER64 and the
\* store of a uint64 on a little-endian platform)
RECURSIVE ToBytesLE(_, _)
ToBytesLE(Value, Num) ==
    IF Num = 0 THEN <<>> ELSE <<Value % 256>> \o ToBytesLE(Value \div 256, Num - 1)

RECURSIVE FromBytesLE(_)
FromBytesLE(Bytes) ==
    IF Bytes = <<>> THEN 0 ELSE Head(Bytes) + 256 * FromBytesLE(Tail(Bytes))

\* AddUninitializedElements: Num more bytes, each holding what the memory held
\* (Old) until it is written
AddUninitialized(Out, Num, Old) == Out \o [i \in 1..Num |-> Old]

\* TArray::AddZeroed
AddZeroed(Out, Num) == Out \o [i \in 1..Num |-> 0]

\* FMemory::Memcpy(Out.GetData() + At, Bytes, Len(Bytes))
Memcpy(Out, At, Bytes) ==
    [i \in 1..Len(Out) |-> IF i > At /\ i <= At + Len(Bytes) THEN Bytes[i - At] ELSE Out[i]]

\* AddValue(Out, Value): *AddUninitializedElements<uint64>(Out, 1) = Value
AddValue(Out, Value, Old) ==
    Memcpy(AddUninitialized(Out, SizeofUint64, Old), Len(Out), ToBytesLE(Value, SizeofUint64))

\* A faulty AlignTo: the padding is added and not written
AlignTo_Uninitialized(Out, Size, Old) ==
    IF Len(Out) % Size # 0 THEN AddUninitialized(Out, Size - (Len(Out) % Size), Old) ELSE Out

\* AlignTo<T>(Out)
AlignTo(Out, Size, Old) ==
    IF Len(Out) % Size # 0 THEN AddZeroed(Out, Size - (Len(Out) % Size)) ELSE Out

\* FSerializedNameHeader(Len, bIsUtf16)
FSerializedNameHeader(Length, bIsUtf16) ==
    <<(IF bIsUtf16 THEN 128 ELSE 0) + ((Length \div 256) % 256), Length % 256>>

\* SaveAnsiName
SaveAnsiName(Out, Src, Old) ==
    Memcpy(AddUninitialized(Out, Len(Src), Old), Len(Out), Src)

\* SaveUtf16Name (FTCHARToUTF16 copies the code units where WIDECHAR has 16 bits)
SaveUtf16Name(Out, Src, Old) ==
    With(AlignTo(Out, SizeofUtf16, Old), LAMBDA Aligned :
        Memcpy(AddUninitialized(Aligned, SizeofUtf16 * Len(Src), Old), Len(Aligned),
               ViewBytes(Src, TRUE)))

\* SaveAnsiOrUtf16Name
SaveAnsiOrUtf16Name(Out, Name, Old) ==
    With(Memcpy(AddUninitialized(Out, 2, Old), Len(Out),
                FSerializedNameHeader(Name.Len, Name.bIsWide)), LAMBDA WithHeader :
        IF Name.bIsWide THEN SaveUtf16Name(WithHeader, Name.Str, Old)
                        ELSE SaveAnsiName(WithHeader, Name.Str, Old))

\* A faulty SaveNameBatch: the hash of the name as it is spelled
SavedHash_AsSpelled(SavedName) == GenerateHash(SavedName.Str, SavedName.bIsWide)

\* SaveNameBatch: LowerHash of the saved name
SavedHash(SavedName) == GenerateLowerCaseHash(SavedName.Str, SavedName.bIsWide)

\* SaveNameBatch: the loop over Names
RECURSIVE SaveNames(_, _, _, _)
SaveNames(Mem, Names, Streams, Old) ==
    IF Names = <<>> THEN Streams
    ELSE LET InMemoryName == MakeView(Mem[Head(Names)])
             LowerHash == SavedHash(InMemoryName)
         IN SaveNames(Mem, Tail(Names),
                      [NameData |-> SaveAnsiOrUtf16Name(Streams.NameData, InMemoryName, Old),
                       HashData |-> AddValue(Streams.HashData, LowerHash, Old)], Old)

\* SaveNameBatch(Names, OutNameData, OutHashData); Old is what the memory of the
\* emptied output arrays holds
SaveNameBatch(Mem, Names, Old) ==
    SaveNames(Mem, Names,
              [NameData |-> <<>>, HashData |-> AddValue(<<>>, AlgorithmId, Old)], Old)

\* LoadNameHeader(InOutIt); It is the offset of InOutIt from NameData.GetData(),
\* which is aligned, so that GetRequiredUtf16Padding is the low bit of the offset
LoadNameHeader(NameData, It) ==
    LET D0 == NameData[It + 1]
        D1 == NameData[It + 2]
        Length == (D0 % 128) * 256 + D1
        bIsUtf16 == D0 >= 128
        At == IF bIsUtf16 THEN It + 2 + ((It + 2) % 2) ELSE It + 2
    IN [Name |-> [Str |-> [i \in 1..Length |->
                              IF bIsUtf16
                              THEN NameData[At + 2 * i - 1] + 256 * NameData[At + 2 * i]
                              ELSE NameData[At + i]],
                  bIsUtf16 |-> bIsUtf16],
        It |-> At + Length * (IF bIsUtf16 THEN SizeofUtf16 ELSE 1)]

\* BatchLoadNameWithHash (WIDECHAR has 16 bits)
BatchLoadNameWithHash(P, Name, InHash) ==
    PoolComparisonInsert(P, FNameValueWithHash(FNameStringView(Name.Str, Name.bIsUtf16),
                                               FNameHash(Name.Str, Name.bIsUtf16, InHash)))

\* A faulty BatchLoadNameWithoutHash: the hash of the name as it is spelled
BatchLoadNameWithoutHash_AsSpelled(P, Name) ==
    With(FNameStringView(Name.Str, Name.bIsUtf16), LAMBDA View :
        PoolComparisonInsert(P, FNameValueWithHash(View, HashName(TRUE, View))))

\* BatchLoadNameWithoutHash
BatchLoadNameWithoutHash(P, Name) ==
    With(FNameStringView(Name.Str, Name.bIsUtf16), LAMBDA View :
        PoolComparisonInsert(P, FNameValueWithHash(View, HashName(FALSE, View))))

\* LoadNameBatch: for (uint64 Hash : Hashes)
RECURSIVE LoadWithHashes(_, _, _, _, _)
LoadWithHashes(P, NameData, It, Hashes, OutNames) ==
    IF Hashes = <<>> THEN [P |-> P, It |-> It, OutNames |-> OutNames, Fatal |-> ""]
    ELSE IF ~(It < Len(NameData))
    THEN [P |-> P, It |-> It, OutNames |-> OutNames, Fatal |-> "NameIt < NameEnd"]
    ELSE LET Header == LoadNameHeader(NameData, It)
             R == BatchLoadNameWithHash(P, Header.Name, Head(Hashes))
         IN IF R.Fatal # ""
            THEN [P |-> R.P, It |-> Header.It, OutNames |-> OutNames, Fatal |-> R.Fatal]
            ELSE LoadWithHashes(R.P, NameData, Header.It, Tail(Hashes), Append(OutNames, R.Id))

\* LoadNameBatch: while (NameIt < NameEnd)
RECURSIVE LoadWithoutHashes(_, _, _, _)
LoadWithoutHashes(P, NameData, It, OutNames) ==
    IF ~(It < Len(NameData)) THEN [P |-> P, It |-> It, OutNames |-> OutNames, Fatal |-> ""]
    ELSE LET Header == LoadNameHeader(NameData, It)
             R == BatchLoadNameWithoutHash(P, Header.Name)
         IN IF R.Fatal # ""
            THEN [P |-> R.P, It |-> Header.It, OutNames |-> OutNames, Fatal |-> R.Fatal]
            ELSE LoadWithoutHashes(R.P, NameData, Header.It, Append(OutNames, R.Id))

\* the uint64 values of HashData
HashWords(HashData) ==
    [i \in 1..(Len(HashData) \div SizeofUint64) |->
        FromBytesLE(SubSeq(HashData, SizeofUint64 * (i - 1) + 1, SizeofUint64 * i))]

\* LoadNameBatch(OutNames, NameData, HashData), between BatchLock and BatchUnlock
LoadNameBatch(P, NameData, HashData) ==
    IF Len(HashData) % SizeofUint64 # 0 \/ Len(HashData) = 0
    THEN [P |-> P, OutNames |-> <<>>, Fatal |-> "HashData.Num()"]
    ELSE LET Words == HashWords(HashData)
             R == IF Words[1] = AlgorithmId
                  THEN LoadWithHashes(P, NameData, 0, Tail(Words), <<>>)
                  ELSE LoadWithoutHashes(P, NameData, 0, <<>>)
         IN [P |-> R.P, OutNames |-> R.OutNames,
             Fatal |-> IF R.Fatal # "" THEN R.Fatal
                       ELSE IF R.It # Len(NameData) THEN "NameIt == NameEnd" ELSE ""]

\* calls made in one run of the serialization specification, and the longest
\* sequence of identifiers saved
MaxBatchOps == 2
MaxBatchLen == 2

\* the pool when the first batch is saved or loaded: "MAX", which differs from
\* the hard-coded "Max" in letter case only, and a wide text have been interned
PoolWithMAX == PoolStore(NewPool.P, FNameStringView(<<77, 65, 88>>, FALSE))
PoolWithWide == PoolStore(PoolWithMAX.P, FNameStringView(Str_wide, TRUE))

InitBatch ==
    /\ bCasePreserving \in BOOLEAN
    /\ Entries = PoolWithWide.P.Entries
    /\ ComparisonShards = PoolWithWide.P.ComparisonShards
    /\ DisplayShards = PoolWithWide.P.DisplayShards
    /\ ENames = NewPool.ENames
    /\ Fatal = ""
    /\ BatchOwner = NoThread
    /\ thr = [t \in Threads |-> IdleThread]
    /\ Held = [t \in Threads |-> <<>>]
    /\ Singleton = ConstructedSingleton
    /\ returned = {}
    /\ nOps = 0

\* the texts interned between the calls of the batch functions
BatchTexts == {Str_ab}

\* what the memory of an emptied output array holds (0xaa, 0xbb in
\* TestNameBatch): one pattern for every other call
BytePatterns == <<170, 187>>

IdSeqs(Mem) == UNION {[1..n -> DOMAIN Mem] : n \in 0..MaxBatchLen}

\* TestNameBatch, "Test changing hash version": HashData[0] = 0xba; HashData[1] = 0xad
ChangeVersion(HashData) == [HashData EXCEPT ![1] = 186, ![2] = 173]

\* the pool of another process, which has interned "Abx" and the wide text, and
\* the batch it has saved of these two names
Str_Abx == <<65, 98, 120>>
ForeignAbx == PoolStore(NewPool.P, FNameStringView(Str_Abx, FALSE))
ForeignWide == PoolStore(ForeignAbx.P, FNameStringView(Str_wide, TRUE))
ForeignBatches ==
    {[Names |-> <<>>, bForeign |-> TRUE,
      Streams |-> SaveNameBatch(ForeignWide.P.Entries.Mem, <<ForeignAbx.Id, ForeignWide.Id>>, 0)]}

\* the batches saved in this run
SavedBatches ==
    {[Names |-> r.Names, bForeign |-> FALSE, Streams |-> r.Streams] :
        r \in {q \in returned : q.Op = "SaveNameBatch"}}

\* FName(Text), between two calls of the batch functions
BatchIntern ==
    /\ Running /\ nOps < MaxBatchOps
    /\ nOps' = nOps + 1
    /\ \E Str \in BatchTexts :
       \E R \in {PoolStore(Pool, FNameStringView(Str, IsWide(Str)))} :
          /\ SetPool(R.P)
          /\ Fatal' = R.Fatal
    /\ UNCHANGED <<bCasePreserving, ENames, Singleton, Held, BatchOwner, thr, returned>>

\* SaveNameBatch(Names, OutNameData, OutHashData) on identifiers of the pool
SaveNameBatchCall ==
    /\ Running /\ nOps < MaxBatchOps
    /\ nOps' = nOps + 1
    /\ \E Names \in IdSeqs(Entries.Mem) : \E Old \in {BytePatterns[(nOps % 2) + 1]} :
          returned' = returned \cup
              {[Op |-> "SaveNameBatch", Names |-> Names, Old |-> Old,
                NumEntries |-> Cardinality(DOMAIN Entries.Mem),
                Streams |-> SaveNameBatch(Entries.Mem, Names, Old)]}
    /\ PoolUnchanged
    /\ UNCHANGED <<bCasePreserving, ENames, Singleton, Held, BatchOwner, Fatal, thr>>

\* LoadNameBatch(OutNames, NameData, HashData) on a batch saved in this run or
\* by another process, with the hash version as saved or changed
LoadNameBatchCall ==
    /\ Running /\ nOps < MaxBatchOps
    /\ nOps' = nOps + 1
    /\ \E B \in SavedBatches \cup ForeignBatches : \E bChangeVersion \in BOOLEAN :
       \E HashData \in {IF bChangeVersion THEN ChangeVersion(B.Streams.HashData)
                                          ELSE B.Streams.HashData} :
       \E R \in {LoadNameBatch(Pool, B.Streams.NameData, HashData)} :
          /\ SetPool(R.P)
          /\ Fatal' = R.Fatal
          /\ returned' = returned \cup
                {[Op |-> "LoadNameBatch", Names |-> B.Names,
                  bForeign |-> B.bForeign, bChangeVersion |-> bChangeVersion,
                  NameData |-> B.Streams.NameData, HashData |-> HashData,
                  SavedHashData |-> B.Streams.HashData,
                  Before |-> Pool, After |-> R.P, OutNames |-> R.OutNames,
                  Fatal |-> R.Fatal]}
    /\ UNCHANGED <<bCasePreserving, ENames, Singleton, Held, BatchOwner, thr>>

NextBatch ==
    \/ BatchIntern
    \/ SaveNameBatchCall
    \/ LoadNameBatchCall

SpecBatch == InitBatch /\ [][NextBatch]_vars

-----------------------------------------------------------------------------
(* Loading a serialized name entry from an archive *)

\* calls made in one run of the archive specification
MaxArchiveOps == 2

\* the smallest int32, which has no negation
MIN_int32 == (0 - MAX_int32) - 1

SizeofInt32 == 4
SizeofUCS2 == 2
\* uint16 DummyHashes[2]
SizeofDummyHashes == 4

\* FNameEntrySerialized before operator<< loads into it: the narrow flag, and
\* the NAME_SIZE characters of its name buffer, all zero
EmptyEntrySerialized == [bIsWide |-> FALSE, Name |-> [i \in 1..NAME_SIZE |-> 0]]

\* the characters that follow the length field in the archive
ArchivePayload(Num) == [i \in 1..Num |-> 97 + (i % 3)]

\* Ar.Serialize(Buffer, Num characters) into the name buffer of E: the first
\* Num characters of the buffer are overwritten
SerializeInto(E, bIsWide, Num) ==
    [bIsWide |-> bIsWide,
     Name |-> [i \in 1..NAME_SIZE |-> IF i <= Num THEN ArchivePayload(Num)[i] ELSE E.Name[i]]]

\* the ways a copy of Num characters into the name buffer can end: within the
\* buffer it returns; past the end of the buffer the behaviour is undefined, and
\* the build either overwrites what follows the buffer and returns, or faults
CopyOutcomes(Num) == IF Num <= NAME_SIZE THEN {"Returned"} ELSE {"Overrun", "Crash"}

\* operator<<(FArchive& Ar, FNameEntrySerialized& E), loading: the set of the
\* results the call can have; Copied is the number of characters written from
\* the start of the name buffer on, Consumed the bytes read from the archive
LoadEntrySerialized(E, StringLen, MaxSerializeSize, bHashesSerialized) ==
    IF StringLen < 0 /\ StringLen = MIN_int32
    THEN {[bCriticalError |-> TRUE, E |-> E, Copied |-> 0, Consumed |-> SizeofInt32,
           Outcome |-> "Returned"]}
    ELSE LET bWide == StringLen < 0
             Num == IF bWide THEN 0 - StringLen ELSE StringLen
             Skip == IF bHashesSerialized THEN SizeofDummyHashes ELSE 0
         IN  IF MaxSerializeSize > 0 /\ Num > MaxSerializeSize
             THEN {[bCriticalError |-> TRUE, E |-> E, Copied |-> 0, Consumed |-> SizeofInt32,
                    Outcome |-> "Returned"]}
             ELSE {[bCriticalError |-> FALSE, E |-> SerializeInto(E, bWide, Num),
                    Copied |-> Num,
                    Consumed |-> SizeofInt32 + Num * (IF bWide THEN SizeofUCS2 ELSE 1) + Skip,
                    Outcome |-> o] : o \in CopyOutcomes(Num)}

\* length fields read from the archive: the marker, wide and narrow lengths
\* within, at and past the size of the name buffer
StringLens == {MIN_int32, 0 - (NAME_SIZE + 1), 0 - NAME_SIZE, 0 - 2, 0, 2, NAME_SIZE, NAME_SIZE + 1}

\* Ar.GetMaxSerializeSize(): no limit, a limit below and a limit above the size
\* of the name buffer
MaxSerializeSizes == {0, 1, NAME_SIZE + 4}

InitArchive ==
    /\ bCasePreserving \in BOOLEAN
    /\ Entries = NewPool.P.Entries
    /\ ComparisonShards = NewPool.P.ComparisonShards
    /\ DisplayShards = NewPool.P.DisplayShards
    /\ ENames = RawENames
    /\ Fatal = ""
    /\ BatchOwner = NoThread
    /\ thr = [t \in Threads |-> IdleThread]
    /\ Held = [t \in Threads |-> <<>>]
    /\ Singleton = ConstructedSingleton
    /\ returned = {}
    /\ nOps = 0

\* Ar << E on a loading archive, into a fresh FNameEntrySerialized
ArchiveLoad ==
    /\ Fatal = "" /\ nOps < MaxArchiveOps
    /\ nOps' = nOps + 1
    /\ \E StringLen \in StringLens, MaxSerializeSize \in MaxSerializeSizes,
          bHashesSerialized \in BOOLEAN :
          \E R \in LoadEntrySerialized(EmptyEntrySerialized, StringLen, MaxSerializeSize,
                                       bHashesSerialized) :
             /\ returned' = returned \cup
                   {[N |-> nOps + 1, Op |-> "ArchiveLoad", StringLen |-> StringLen,
                     MaxSerializeSize |-> MaxSerializeSize,
                     bHashesSerialized |-> bHashesSerialized,
                     bCriticalError |-> R.bCriticalError, E |-> R.E, Copied |-> R.Copied,
                     Consumed |-> R.Consumed, Outcome |-> R.Outcome]}
             /\ Fatal' = IF R.Outcome = "Crash" THEN "access violation" ELSE Fatal
    /\ PoolUnchanged
    /\ UNCHANGED <<bCasePreserving, ENames, Singleton, Held, BatchOwner, thr>>

NextArchive == ArchiveLoad

SpecArchive == InitArchive /\ [][NextArchive]_vars

-----------------------------------------------------------------------------
(* Comparing handles and identifiers *)

\* calls made in one run of the comparison specification
MaxCompareOps == 1

\* FPlatformString::Strnicmp(A, B, Count) of texts that hold no NUL within Count
\* characters: the difference of the first two characters that differ once
\* lower-cased, 0 when there is none
RECURSIVE Strnicmp(_, _, _)
Strnicmp(A, B, Count) ==
    IF Count = 0 THEN 0
    ELSE IF ToLower(Head(A)) # ToLower(Head(B)) THEN ToLower(Head(A)) - ToLower(Head(B))
    ELSE Strnicmp(Tail(A), Tail(B), Count - 1)

\* CompareDifferentIdsAlphabetically(AId, BId): a narrow view is widened when
\* the other is wide (a character keeps its code), then Strnicmp over the
\* shorter length, then the difference of the lengths
CompareDifferentIdsAlphabetically(Mem, AId, BId) ==
    LET AView == MakeView(Mem[AId])
        BView == MakeView(Mem[BId])
        MinLen == IF AView.Len < BView.Len THEN AView.Len ELSE BView.Len
        StrDiff == Strnicmp(AView.Str, BView.Str, MinLen)
    IN  IF StrDiff # 0 THEN StrDiff ELSE AView.Len - BView.Len

\* FNameEntryId::CompareLexical(Rhs):
\*   return Value != Rhs.Value && CompareDifferentIdsAlphabetically(*this, Rhs);
\* the bool of && converted to int32
CompareLexical(Mem, Value, Rhs) ==
    IF Value # Rhs /\ CompareDifferentIdsAlphabetically(Mem, Value, Rhs) # 0 THEN 1 ELSE 0

\* A - B in int32: the difference when it fits; when it does not, signed
\* overflow, which is undefined: the build returns the wrapped difference or traps
Int32Minus(A, B) ==
    IF B < 0 /\ A > MAX_int32 + B
    THEN {[Value |-> (A - MAX_int32 - 1) + ((0 - (B + 1)) - MAX_int32), Outcome |-> "Wrapped"],
          [Value |-> 0, Outcome |-> "Trap"]}
    ELSE IF B > 0 /\ A < MIN_int32 + B
    THEN {[Value |-> (A + MAX_int32 + 1) + ((MAX_int32 - B) + 1), Outcome |-> "Wrapped"],
          [Value |-> 0, Outcome |-> "Trap"]}
    ELSE {[Value |-> A - B, Outcome |-> "Returned"]}

\* FName::Compare(Other): the results the call can have
FNameCompare(Mem, A, B) ==
    IF A.ComparisonIndex = B.ComparisonIndex
    THEN Int32Minus(A.Number, B.Number)
    ELSE {[Value |-> CompareDifferentIdsAlphabetically(Mem, A.ComparisonIndex,
                                                       B.ComparisonIndex),
           Outcome |-> "Returned"]}

\* the texts interned before the comparisons: two spellings of one name, a
\* text it is a proper prefix of, a text that orders after it, a wide text
CompareTexts == <<Str_ab, Str_AB, Str_abx, Str_ba, Str_wide>>

RECURSIVE StoreAll(_, _)
StoreAll(P, Texts) ==
    IF Texts = <<>> THEN P
    ELSE With(PoolStore(P, FNameStringView(Head(Texts), IsWide(Head(Texts)))), LAMBDA R :
             StoreAll(R.P, Tail(Texts)))

PoolCompared == StoreAll(NewPool.P, CompareTexts)

\* the internal numbers of the handles compared: none, the largest a suffix
\* gives, and a negative number given to FName(Name, InNumber)
CompareNumbers == {NAME_NO_NUMBER_INTERNAL, MAX_int32, 0 - 2}

\* the handles of the names in the pool
Handles(Mem) ==
    {MakeFName(IF bCasePreserving THEN Mem[Id].ComparisonId ELSE Id, Id, n) :
        Id \in DOMAIN Mem, n \in CompareNumbers}

InitCompare ==
    /\ bCasePreserving \in BOOLEAN
    /\ Entries = PoolCompared.Entries
    /\ ComparisonShards = PoolCompared.ComparisonShards
    /\ DisplayShards = PoolCompared.DisplayShards
    /\ ENames = NewPool.ENames
    /\ Fatal = ""
    /\ BatchOwner = NoThread
    /\ thr = [t \in Threads |-> IdleThread]
    /\ Held = [t \in Threads |-> <<>>]
    /\ Singleton = ConstructedSingleton
    /\ returned = {}
    /\ nOps = 0

\* A.Compare(B)
CompareCall ==
    /\ Fatal = "" /\ nOps < MaxCompareOps
    /\ nOps' = nOps + 1
    /\ \E A \in Handles(Entries.Mem), B \in Handles(Entries.Mem) :
          \E R \in FNameCompare(Entries.Mem, A, B) :
             /\ returned' = returned \cup
                   {[Op |-> "Compare", A |-> A, B |-> B, Value |-> R.Value,
                     Outcome |-> R.Outcome]}
             /\ Fatal' = IF R.Outcome = "Trap" THEN "signed integer overflow" ELSE Fatal
    /\ PoolUnchanged
    /\ UNCHANGED <<bCasePreserving, ENames, Singleton, Held, BatchOwner, thr>>

\* A.CompareLexical(B)
CompareLexicalCall ==
    /\ Fatal = "" /\ nOps < MaxCompareOps
    /\ nOps' = nOps + 1
    /\ \E A \in DOMAIN Entries.Mem, B \in DOMAIN Entries.Mem :
          returned' = returned \cup
              {[Op |-> "CompareLexical", A |-> A, B |-> B,
                Value |-> CompareLexical(Entries.Mem, A, B)]}
    /\ PoolUnchanged
    /\ UNCHANGED <<bCasePreserving, ENames, Singleton, Held, BatchOwner, Fatal, thr>>

NextCompare ==
    \/ CompareCall
    \/ CompareLexicalCall

SpecCompare == InitCompare /\ [][NextCompare]_vars

-----------------------------------------------------------------------------
(* The name API on one thread: Make, ToString, GetStringLength, operator==   *)
(* with a character pointer                                                  *)

\* NAME_INTERNAL_TO_EXTERNAL
NAME_INTERNAL_TO_EXTERNAL(x) == x - 1

\* A faulty ReplaceName: the entry keeps its characters
ReplaceName_Keeps(P, ExistingId, Updated) == P

\* FNameHelper::ReplaceName(Existing, Updated), after its two check()s: the
\* characters of the entry are overwritten, the rest of the entry is left
ReplaceName(P, ExistingId, Updated) ==
    [P EXCEPT !.Entries.Mem[ExistingId].Name = Updated.Str]

\* the text of FName("ERROR_NAME_SIZE_EXCEEDED"), cut down as NAME_SIZE is
Str_ERROR == <<69, 82, 82, 79, 82>>

\* FNameHelper::Make(View, FindType, InternalNumber) on one thread, for a view
\* of at least one character; bDoCheck is whether check() is compiled in
Make(P, View, FindType, InternalNumber, bDoCheck) ==
    IF View.Len >= NAME_SIZE
    THEN IF bDoCheck
         THEN [P |-> P, Result |-> NAME_None, Fatal |-> "NAME_SIZE"]
         ELSE With(PoolStore(P, FNameStringView(Str_ERROR, FALSE)), LAMBDA R :
                 [P |-> R.P, Result |-> AddResult(R.P, R.Id, NAME_NO_NUMBER_INTERNAL),
                  Fatal |-> R.Fatal])
    ELSE IF FindType = "Add"
    THEN With(PoolStore(P, View), LAMBDA R :
            [P |-> R.P,
             Result |-> IF R.Fatal # "" THEN NAME_None ELSE AddResult(R.P, R.Id, InternalNumber),
             Fatal |-> R.Fatal])
    ELSE IF FindType = "Find"
    THEN [P |-> P, Result |-> FindResult(P, PoolFind(P, View), InternalNumber), Fatal |-> ""]
    ELSE With(PoolStore(P, View), LAMBDA R :
            IF R.Fatal # "" THEN [P |-> R.P, Result |-> NAME_None, Fatal |-> R.Fatal]
            ELSE With(AddResult(R.P, R.Id, InternalNumber), LAMBDA Name :
                 With(R.P.Entries.Mem[Name.ComparisonIndex], LAMBDA Existing :
                 IF bDoCheck /\ Existing.Header.bIsWide # View.bIsWide
                 THEN [P |-> R.P, Result |-> NAME_None,
                       Fatal |-> "Existing.Header.bIsWide == Updated.bIsWide"]
                 ELSE IF bDoCheck /\ Existing.Header.Len # View.Len
                 THEN [P |-> R.P, Result |-> NAME_None,
                       Fatal |-> "Existing.Header.Len == Updated.Len"]
                 ELSE [P |-> ReplaceName(R.P, Name.ComparisonIndex, View),
                       Result |-> Name, Fatal |-> ""])))

\* FName(Name, FindType), both overloads, on one thread
FNameOf(P, Req, bDoCheck) ==
    With(FNameCtor(Req), LAMBDA C :
        IF C.Immediate THEN [P |-> P, Result |-> C.Result, Fatal |-> ""]
        ELSE Make(P, C.View, Req.FindType, C.Number, bDoCheck))

\* the characters of a decimal number, as "%d" and AppendInt write it
RECURSIVE DecimalDigits(_)
DecimalDigits(n) ==
    IF n < 10 THEN <<48 + n>> ELSE DecimalDigits(n \div 10) \o <<48 + (n % 10)>>
AppendInt(n) == IF n < 0 THEN <<45>> \o DecimalDigits(0 - n) ELSE DecimalDigits(n)

\* A faulty ToString: the number is written as it is stored
FNameToString_InternalNumber(Mem, Name) ==
    IF Name.Number = NAME_NO_NUMBER_INTERNAL
    THEN Mem[Name.DisplayIndex].Name
    ELSE Mem[Name.DisplayIndex].Name \o <<95>> \o AppendInt(Name.Number)

\* FName::ToString: the text of the display entry, then '_' and the external
\* number when the handle has a number
FNameToString(Mem, Name) ==
    IF Name.Number = NAME_NO_NUMBER_INTERNAL
    THEN Mem[Name.DisplayIndex].Name
    ELSE Mem[Name.DisplayIndex].Name \o <<95>>
            \o AppendInt(NAME_INTERNAL_TO_EXTERNAL(Name.Number))

\* FName::GetStringLength: NameLen, plus the length Sprintf("_%d") returns
GetStringLength(Mem, Name) ==
    IF Name.Number = NAME_NO_NUMBER_INTERNAL
    THEN Mem[Name.DisplayIndex].Header.Len
    ELSE Mem[Name.DisplayIndex].Header.Len
            + Len(<<95>> \o AppendInt(NAME_INTERNAL_TO_EXTERNAL(Name.Number)))

\* the character at offset I of a NUL-terminated string (the NUL past its end)
CharAt(Str, I) == IF I < Len(Str) THEN Str[I + 1] ELSE 0

IsSpace(c) == c = 32 \/ (c >= 9 /\ c <= 13)

\* the white space strtoll skips at offset I of Str
RECURSIVE SkipSpaces(_, _)
SkipSpaces(Str, I) == IF IsSpace(CharAt(Str, I)) THEN SkipSpaces(Str, I + 1) ELSE I

\* the digits strtoll reads at offset I of Str
RECURSIVE DigitsAt(_, _)
DigitsAt(Str, I) ==
    IF IsDigit(CharAt(Str, I)) THEN <<CharAt(Str, I)>> \o DigitsAt(Str, I + 1) ELSE <<>>

\* TCString<CharType>::Strtoi64(Str, &End, 10) for a number of at most ten
\* digits: white space, an optional sign, digits; End stays at the start of Str
\* when there is no digit.  The value is given as magnitude and sign.
Strtoi64(Str) ==
    LET S == SkipSpaces(Str, 0)
        bSign == CharAt(Str, S) \in {43, 45}
        D == IF bSign THEN S + 1 ELSE S
        Digits == DigitsAt(Str, D)
    IN  IF Digits = <<>>
        THEN [Magnitude |-> ToInt64(0), bNegative |-> FALSE, End |-> 0]
        ELSE [Magnitude |-> Atoi64(Digits), bNegative |-> CharAt(Str, S) = 45,
              End |-> D + Len(Digits)]

\* NumberEqualsString(Number, Str):
\*   Strtoi64(Str, &End, 10) == Number && End && *End == '\0'
NumberEqualsString(Number, Str) ==
    LET R == Strtoi64(Str)
    IN  /\ R.Magnitude = ToInt64(Number)
        /\ (R.bNegative => Number = 0)
        /\ CharAt(Str, R.End) = 0

\* StringAndNumberEqualsString(Name, NameLen, InternalNumber, Str); Strnicmp
\* stops at the NUL of a shorter Str, which differs from the character of Name
StringAndNumberEqualsString(Name, NameLen, InternalNumber, Str) ==
    IF \E i \in 1..NameLen : ToLower(Name[i]) # ToLower(CharAt(Str, i - 1))
    THEN FALSE
    ELSE IF InternalNumber = NAME_NO_NUMBER_INTERNAL
    THEN CharAt(Str, NameLen) = 0
    ELSE /\ CharAt(Str, NameLen) = 95
         /\ NumberEqualsString(NAME_INTERNAL_TO_EXTERNAL(InternalNumber),
                               SubSeq(Str, NameLen + 2, Len(Str)))

\* FName::IsNone
IsNone(Name) == Name.ComparisonIndex = 0 /\ Name.Number = NAME_NO_NUMBER_INTERNAL

\* FNameHelper::EqualsString(Name, Str): FName::operator==(const CharType*)
EqualsString(Mem, Name, Str, bNull) ==
    IF bNull \/ Str = <<>>
    THEN IsNone(Name)
    ELSE LET Entry == Mem[Name.ComparisonIndex]
         IN  StringAndNumberEqualsString(Entry.Name, Entry.Header.Len, Name.Number, Str)

\* calls made in one run of the decoding specification
MaxDecodeOps == 2

Str_t == <<116>>
Str_T_0 == <<84, 95, 48>>
Str_T_10 == <<84, 95, 49, 48>>
Str_T_01 == <<84, 95, 48, 49>>
Str_T_ == <<84, 95>>
Str__5 == <<95, 53>>
Str_T_Big == <<84, 95>> \o DigitChars(<<2, 1, 4, 7, 4, 8, 3, 6, 4, 6>>)
Str_T_TooBig == <<84, 95>> \o DigitChars(<<4, 0, 0, 0, 0, 0, 0, 0, 0, 0>>)
Str_Wide_3 == <<228, 95, 51>>

\* the texts given to FName(const ANSICHAR*): with and without a suffix that is
\* split off, in two letter cases, a spelling of None, a suffix with nothing
\* before it, and a text of NAME_SIZE characters or more that is interned whole
DecodeTexts ==
    {Str_T, Str_t, Str_T_0, Str_T_10, Str_T_01, Str__5, Str_none, Str_T_Big, Str_T_TooBig}

\* the texts given to FName(const WIDECHAR*)
WideDecodeTexts == {Str_T_10, Str_Wide_3}

\* the strings a handle is compared with: those texts, a suffix without digits
\* and suffixes that strtoll reads as a number though they are not split off
EqualsStrings ==
    DecodeTexts \cup WideDecodeTexts
        \cup {<<>>, Str_T_, <<84, 95, 48, 49, 48>>, <<84, 95, 43, 48>>, Str_None}

\* the pool when the first call is made: "T" has been interned
PoolDecoded == PoolStore(NewPool.P, FNameStringView(Str_T, FALSE)).P

InitDecode ==
    /\ bCasePreserving \in BOOLEAN
    /\ Entries = PoolDecoded.Entries
    /\ ComparisonShards = PoolDecoded.ComparisonShards
    /\ DisplayShards = PoolDecoded.DisplayShards
    /\ ENames = NewPool.ENames
    /\ Fatal = ""
    /\ BatchOwner = NoThread
    /\ thr = [t \in Threads |-> IdleThread]
    /\ Held = [t \in Threads |-> <<>>]
    /\ Singleton = ConstructedSingleton
    /\ returned = {}
    /\ nOps = 0

\* the handles the calls so far have returned
NamesReturned == {r.Result : r \in {x \in returned : x.Op = "FName"}}

\* FName(Text) / FName(TEXT(Text))
NameCall ==
    /\ Running /\ nOps < MaxDecodeOps
    /\ nOps' = nOps + 1
    /\ \E Req \in {FNameReq("Add", Buf, FALSE, FALSE) : Buf \in DecodeTexts}
                    \cup {FNameReq("Add", Buf, FALSE, TRUE) : Buf \in WideDecodeTexts}
                    \cup {FNameReq("Add", <<>>, bNull, FALSE) : bNull \in BOOLEAN},
          bDoCheck \in BOOLEAN :
          \E R \in {FNameOf(Pool, Req, bDoCheck)} :
             /\ SetPool(R.P)
             /\ Fatal' = R.Fatal
             /\ returned' = IF R.Fatal # "" THEN returned
                            ELSE returned \cup
                                    {[Op |-> "FName", Text |-> Req.Buf, bNull |-> Req.bNull,
                                      bWideBuf |-> Req.bWideBuf, bDoCheck |-> bDoCheck,
                                      Result |-> R.Result]}
    /\ UNCHANGED <<bCasePreserving, ENames, Singleton, Held, BatchOwner, thr>>

\* Name.ToString()
ToStringCall ==
    /\ Running /\ nOps < MaxDecodeOps
    /\ nOps' = nOps + 1
    /\ \E Name \in NamesReturned :
          returned' = returned \cup
              {[Op |-> "ToString", Name |-> Name, Out |-> FNameToString(Entries.Mem, Name)]}
    /\ PoolUnchanged
    /\ UNCHANGED <<bCasePreserving, ENames, Singleton, Held, BatchOwner, Fatal, thr>>

\* Name.GetStringLength()
GetStringLengthCall ==
    /\ Running /\ nOps < MaxDecodeOps
    /\ nOps' = nOps + 1
    /\ \E Name \in NamesReturned :
          returned' = returned \cup
              {[Op |-> "GetStringLength", Name |-> Name,
                Value |-> GetStringLength(Entries.Mem, Name)]}
    /\ PoolUnchanged
    /\ UNCHANGED <<bCasePreserving, ENames, Singleton, Held, BatchOwner, Fatal, thr>>

\* Name == Str, for a character pointer Str
EqualsStringCall ==
    /\ Running /\ nOps < MaxDecodeOps
    /\ nOps' = nOps + 1
    /\ \E Name \in NamesReturned, Str \in EqualsStrings, bNull \in BOOLEAN :
          /\ bNull => Str = <<>>
          /\ returned' = returned \cup
                {[Op |-> "EqualsString", Name |-> Name, Str |-> Str, bNull |-> bNull,
                  Value |-> EqualsString(Entries.Mem, Name, Str, bNull)]}
    /\ PoolUnchanged
    /\ UNCHANGED <<bCasePreserving, ENames, Singleton, Held, BatchOwner, Fatal, thr>>

NextDecode ==
    \/ NameCall
    \/ ToStringCall
    \/ GetStringLengthCall
    \/ EqualsStringCall

SpecDecode == InitDecode /\ [][NextDecode]_vars

-----------------------------------------------------------------------------
(* Replacing the casing of a name in place: FNAME_Replace_Not_Safe_For_Threading *)

MaxReplaceOps == 2

\* FNamePool::Reserve(NumBytes, InNumEntries), run alone from start to end
PoolReserve(P, NumBytes, InNumEntries) ==
    With([P EXCEPT !.Entries = ReserveBlocks(@, NumBytes \div BlockSizeBytes + 1)], LAMBDA P1 :
        IF NumEntries(P1) < InNumEntries
        THEN With(InNumEntries \div FNamePoolShards + 1, LAMBDA NumEntriesPerShard :
                [P1 EXCEPT
                    !.DisplayShards =
                        IF bCasePreserving
                        THEN [K \in 1..FNamePoolShards |->
                                 ShardReserve(TRUE, P1.DisplayShards[K], P1.Entries.Mem,
                                              NumEntriesPerShard)]
                        ELSE @,
                    !.ComparisonShards =
                        [K \in 1..FNamePoolShards |->
                            ShardReserve(FALSE, P1.ComparisonShards[K], P1.Entries.Mem,
                                         NumEntriesPerShard)]])
        ELSE P1)

Str_Ab == <<65, 98>>

\* the texts interned, found and replaced: letter-case variants of one narrow
\* and of one wide name, one of them with a number, and other names
ReplaceTexts == {Str_ab, Str_AB, Str_Ab, Str_ab_1, Str_abx, Str_ba, Str_wide, Str_WIDE}

ReplaceFindTypes == {"Add", "Find", "Replace"}

\* the reserves made: a few entries, and as many as take a shard to 64 slots,
\* where the probe starts of two letter cases of a text part
ReplaceReserves == {ReserveReq(0, 6), ReserveReq(0, 100)}

\* the pool when the first call is made: as constructed, or with names interned
PoolsReplaced == {NewPool.P, StoreAll(NewPool.P, <<Str_ab, Str_ba>>)}

InitReplace ==
    /\ bCasePreserving \in BOOLEAN
    /\ \E P \in PoolsReplaced :
          /\ Entries = P.Entries
          /\ ComparisonShards = P.ComparisonShards
          /\ DisplayShards = P.DisplayShards
    /\ ENames = NewPool.ENames
    /\ Fatal = ""
    /\ BatchOwner = NoThread
    /\ thr = [t \in Threads |-> IdleThread]
    /\ Held = [t \in Threads |-> <<>>]
    /\ Singleton = ConstructedSingleton
    /\ returned = {}
    /\ nOps = 0

\* FName(Text, FindType), with FNAME_Add, FNAME_Find or
\* FNAME_Replace_Not_Safe_For_Threading
FindTypeCall ==
    /\ Running /\ nOps < MaxReplaceOps
    /\ nOps' = nOps + 1
    /\ \E Buf \in ReplaceTexts, FindType \in ReplaceFindTypes :
          \E Req \in {FNameReq(FindType, Buf, FALSE, IsWide(Buf))} :
          \E C \in {FNameCtor(Req)} :
          \E R \in {FNameOf(Pool, Req, TRUE)} :
             /\ SetPool(R.P)
             /\ Fatal' = R.Fatal
             /\ returned' = IF R.Fatal # "" THEN returned
                            ELSE returned \cup
                                    {[Op |-> "FName", Seq |-> nOps, Req |-> Req,
                                      View |-> C.View, Number |-> C.Number,
                                      Result |-> R.Result]}
    /\ UNCHANGED <<bCasePreserving, ENames, Singleton, Held, BatchOwner, thr>>

\* FNamePool::Reserve(0, InNumEntries)
ReserveCall ==
    /\ Running /\ nOps < MaxReplaceOps
    /\ nOps' = nOps + 1
    /\ \E Req \in ReplaceReserves :
          SetPool(PoolReserve(Pool, Req.NumBytes, Req.NumEntries))
    /\ UNCHANGED <<bCasePreserving, ENames, Singleton, Held, BatchOwner, Fatal, thr, returned>>

NextReplace ==
    \/ FindTypeCall
    \/ ReserveCall

SpecReplace == InitReplace /\ [][NextReplace]_vars

-----------------------------------------------------------------------------
(* Store of a new name, statement by statement: Insert, ClaimSlot, Grow *)

MaxGrowOps == 3

\* A faulty test of the load factor: the shard never grows
LoadFactorReached_Never(Shard) == FALSE

\* ClaimSlot: if (UsedSlots * LoadFactorDivisor >= LoadFactorQuotient * Capacity())
LoadFactorReached(Shard) ==
    Shard.UsedSlots * LoadFactorDivisor >= LoadFactorQuotient * Capacity(Shard)

\* one-letter names whose hashes select the first comparison shard
GrowTexts == <<<<97>>, <<98>>, <<100>>, <<101>>, <<103>>, <<104>>, <<106>>, <<109>>,
               <<112>>, <<115>>, <<117>>>>
GrowInserts == {<<118>>, <<120>>, <<121>>}

\* the number of entries reserved before the names are stored: it takes every
\* shard to 16 slots.  (The shards of the source start with 256 slots and
\* double; at the 2, 4 and 8 slots of the scaled FNamePoolInitialSlotBits nine
\* tenths of the capacity round up to the capacity itself, which no capacity
\* of the source does.)
GrowReserved == 20

\* the pool when the first call is made: reserved, with the names of GrowTexts
PoolGrown == StoreAll(PoolReserve(NewPool.P, 0, GrowReserved), GrowTexts)

\* the caller between calls, and inside Store
GrowIdle ==
    [pc |-> "Idle", View |-> FNameStringView(<<>>, FALSE), bDisplay |-> FALSE, K |-> 1, I |-> 0,
     Value |-> FNameValue(FALSE, FNameStringView(<<>>, FALSE)), Id |-> NoId,
     OldSlots |-> <<>>, OldIdx |-> 0, OldUsedSlots |-> 0]

InitGrow ==
    /\ bCasePreserving \in BOOLEAN
    /\ Entries = PoolGrown.Entries
    /\ ComparisonShards = PoolGrown.ComparisonShards
    /\ DisplayShards = PoolGrown.DisplayShards
    /\ ENames = NewPool.ENames
    /\ Fatal = ""
    /\ BatchOwner = NoThread
    /\ thr = [t \in Threads |-> GrowIdle]
    /\ Held = [t \in Threads |-> <<>>]
    /\ Singleton = ConstructedSingleton
    /\ returned = {}
    /\ nOps = 0

\* the shard the caller is inserting into
InsertingShard == 
    IF thr[SeqThread].bDisplay THEN DisplayShards[thr[SeqThread].K]
    ELSE ComparisonShards[thr[SeqThread].K]

SetInsertingShard(S) ==
    IF thr[SeqThread].bDisplay
    THEN /\ DisplayShards' = [DisplayShards EXCEPT ![thr[SeqThread].K] = S]
         /\ UNCHANGED ComparisonShards
    ELSE /\ ComparisonShards' = [ComparisonShards EXCEPT ![thr[SeqThread].K] = S]
         /\ UNCHANGED DisplayShards

GrowGoto(pc) == thr' = [thr EXCEPT ![SeqThread].pc = pc]

\* FNamePool::Store(Name) of a name that no entry holds: the display shard does
\* not find it, and Insert of its comparison shard probes for it
StoreNewBegin ==
    /\ Running /\ thr[SeqThread].pc = "Idle" /\ nOps < MaxGrowOps
    /\ \E Text \in GrowInserts :
          \E View \in {FNameStringView(Text, IsWide(Text))} :
          \E Value \in {FNameValue(FALSE, View)} :
             /\ IsAbsent(Pool, View)
             /\ thr' = [thr EXCEPT ![SeqThread] =
                    [GrowIdle EXCEPT
                        !.pc = "Create", !.View = View, !.Value = Value,
                        !.K = Value.Hash.ShardIndex + 1,
                        !.I = ProbeValue(FALSE, ComparisonShards[Value.Hash.ShardIndex + 1],
                                         Entries.Mem, Value)]]
    /\ PoolUnchanged
    /\ UNCHANGED <<bCasePreserving, ENames, Singleton, Held, BatchOwner, Fatal, returned, nOps>>

\* Insert: Entries->Create(Value.Name, Value.ComparisonId, Value.Hash.EntryProbeHeader)
InsertCreate ==
    /\ Running /\ thr[SeqThread].pc = "Create"
    /\ \E Value \in {thr[SeqThread].Value} :
       \E C \in {Create(Entries, Value.Name, Value.ComparisonId, Value.Hash.EntryProbeHeader)} :
          IF C.Fatal
          THEN /\ Fatal' = "Allocate"
               /\ UNCHANGED <<Entries, thr>>
          ELSE IF ~FNameSlotCheck(C.Id, Value.Hash.SlotProbeHash)
          THEN /\ Fatal' = "FNameSlot"
               /\ Entries' = C.A
               /\ UNCHANGED thr
          ELSE /\ Entries' = C.A
               /\ thr' = [thr EXCEPT ![SeqThread].pc = "Claim", ![SeqThread].Id = C.Id]
               /\ UNCHANGED Fatal
    /\ UNCHANGED <<bCasePreserving, ENames, Singleton, Held, ComparisonShards, DisplayShards,
                   BatchOwner, returned, nOps>>

\* ClaimSlot: UnusedSlot = NewValue; ++UsedSlots
ClaimSlotWrite ==
    /\ Running /\ thr[SeqThread].pc = "Claim"
    /\ SetInsertingShard(
          [InsertingShard EXCEPT
              !.Slots[thr[SeqThread].I] =
                  FNameSlot(thr[SeqThread].Id, thr[SeqThread].Value.Hash.SlotProbeHash),
              !.UsedSlots = @ + 1])
    /\ GrowGoto("LoadTest")
    /\ UNCHANGED <<bCasePreserving, ENames, Singleton, Held, Entries, BatchOwner, Fatal,
                   returned, nOps>>

\* ClaimSlot: the test of the load factor
ClaimSlotTest ==
    /\ Running /\ thr[SeqThread].pc = "LoadTest"
    /\ GrowGoto(IF LoadFactorReached(InsertingShard) THEN "GrowAlloc" ELSE "Claimed")
    /\ PoolUnchanged
    /\ UNCHANGED <<bCasePreserving, ENames, Singleton, Held, BatchOwner, Fatal, returned, nOps>>

\* Grow(Capacity() * 2): the new slot array, zeroed; UsedSlots = 0
GrowAllocate ==
    /\ Running /\ thr[SeqThread].pc = "GrowAlloc"
    /\ thr' = [thr EXCEPT ![SeqThread].pc = "GrowLoop",
                          ![SeqThread].OldSlots = InsertingShard.Slots,
                          ![SeqThread].OldUsedSlots = InsertingShard.UsedSlots,
                          ![SeqThread].OldIdx = 1]
    /\ SetInsertingShard(
          [InsertingShard EXCEPT !.Slots = [i \in 1..(Capacity(InsertingShard) * 2) |-> 0],
                                 !.UsedSlots = 0])
    /\ UNCHANGED <<bCasePreserving, ENames, Singleton, Held, Entries, BatchOwner, Fatal,
                   returned, nOps>>

\* Grow: one round of the loop over the old slots; after the last the check of
\* the number of used slots
GrowReinsert ==
    /\ Running /\ thr[SeqThread].pc = "GrowLoop"
    /\ \E G \in {thr[SeqThread]} :
          IF G.OldIdx > Len(G.OldSlots)
          THEN /\ IF G.OldUsedSlots = InsertingShard.UsedSlots
                  THEN GrowGoto("Claimed") /\ UNCHANGED Fatal
                  ELSE Fatal' = "OldUsedSlots == UsedSlots" /\ UNCHANGED thr
               /\ UNCHANGED <<ComparisonShards, DisplayShards>>
          ELSE IF ~Used(G.OldSlots[G.OldIdx])
          THEN /\ thr' = [thr EXCEPT ![SeqThread].OldIdx = @ + 1]
               /\ UNCHANGED <<ComparisonShards, DisplayShards, Fatal>>
          ELSE \E Hash \in {Rehash(G.bDisplay, Entries.Mem, GetId(G.OldSlots[G.OldIdx]))} :
               \E NewI \in {Probe(InsertingShard.Slots, Hash.UnmaskedSlotIndex,
                                  LAMBDA Slot : FALSE)} :
                  IF NewI = 0
                  THEN /\ Fatal' = "Probe"
                       /\ UNCHANGED <<ComparisonShards, DisplayShards, thr>>
                  ELSE /\ SetInsertingShard(
                             [InsertingShard EXCEPT !.Slots[NewI] = G.OldSlots[G.OldIdx],
                                                    !.UsedSlots = @ + 1])
                       /\ thr' = [thr EXCEPT ![SeqThread].OldIdx = @ + 1]
                       /\ UNCHANGED Fatal
    /\ UNCHANGED <<bCasePreserving, ENames, Singleton, Held, Entries, BatchOwner, returned, nOps>>

\* the call returns
StoreNewEnd(G) ==
    /\ thr' = [thr EXCEPT ![SeqThread] = GrowIdle]
    /\ nOps' = nOps + 1
    /\ returned' = returned \cup {[Op |-> "Store", View |-> G.View, Id |-> G.Id]}

\* after ClaimSlot.  Insert counts the entry it created and returns; with case
\* preservation Store goes on to DisplayShard.InsertExistingEntry(DisplayValue.Hash,
\* ComparisonId), which probes and claims a slot of the display shard
AfterClaimSlot ==
    /\ Running /\ thr[SeqThread].pc = "Claimed"
    /\ \E G \in {thr[SeqThread]} :
          IF G.bDisplay
          THEN /\ StoreNewEnd(G)
               /\ PoolUnchanged
          ELSE /\ ComparisonShards' = [ComparisonShards EXCEPT
                      ![G.K].NumCreatedEntries = @ + 1,
                      ![G.K].NumCreatedWideEntries = @ + (IF G.View.bIsWide THEN 1 ELSE 0)]
               /\ UNCHANGED <<Entries, DisplayShards>>
               /\ IF ~bCasePreserving
                  THEN StoreNewEnd(G)
                  ELSE \E DisplayValue \in {FNameValue(TRUE, G.View)} :
                       \E I \in {Probe(DisplayShards[DisplayValue.Hash.ShardIndex + 1].Slots,
                                       DisplayValue.Hash.UnmaskedSlotIndex,
                                       LAMBDA Old : Old = FNameSlot(G.Id, DisplayValue.Hash.SlotProbeHash))} :
                          IF Used(DisplayShards[DisplayValue.Hash.ShardIndex + 1].Slots[I])
                          THEN StoreNewEnd(G)
                          ELSE /\ thr' = [thr EXCEPT ![SeqThread] =
                                     [G EXCEPT !.pc = "Claim", !.bDisplay = TRUE,
                                               !.Value = DisplayValue,
                                               !.K = DisplayValue.Hash.ShardIndex + 1,
                                               !.I = I]]
                               /\ UNCHANGED <<returned, nOps>>
    /\ UNCHANGED <<bCasePreserving, ENames, Singleton, Held, BatchOwner, Fatal>>

NextGrow ==
    \/ StoreNewBegin
    \/ InsertCreate
    \/ ClaimSlotWrite
    \/ ClaimSlotTest
    \/ GrowAllocate
    \/ GrowReinsert
    \/ AfterClaimSlot

SpecGrow == InitGrow /\ [][NextGrow]_vars

-----------------------------------------------------------------------------
(* DebugDump while names are stored *)

MaxDumpOps == 3

\* the calls: two names stored, and the dump
DumpRequests ==
    {FNameReq("Add", Buf, FALSE, FALSE) : Buf \in {Str_ab, Str_abx}} \cup {DebugDumpReq}

\* Thread t enters the name API with one of DumpRequests
DumpCall(t) ==
    /\ Running /\ thr[t].pc = "Idle" /\ nOps < MaxDumpOps
    /\ nOps' = nOps + 1
    /\ \E Req \in DumpRequests :
          IF Req.Op = "FName"
          THEN \E C \in {FNameCtor(Req)} :
                  thr' = [thr EXCEPT ![t] =
                             [IdleThread EXCEPT
                                 !.pc = LockedEntry(Req.FindType), !.N = nOps + 1,
                                 !.Req = Req, !.View = C.View, !.Number = C.Number,
                                 !.Absent = IsAbsent(Pool, C.View)]]
          ELSE thr' = [thr EXCEPT ![t] =
                          [IdleThread EXCEPT !.pc = "DebugDumpLock", !.N = nOps + 1,
                                             !.Req = Req]]
    /\ PoolUnchanged
    /\ UNCHANGED <<bCasePreserving, ENames, Singleton, Held, BatchOwner, Fatal, returned>>

\* DebugDumpBlock(It, BlockSize, Out) from the byte It of block Block on.  The
\* header at It is that of an entry Create has written, the terminator
\* AllocateNewBlock has written, or memory that was never written: what
\* Entry->Header.Len is then is not defined.  bZero is whether it reads as 0
\* (the loop breaks) or as another length (the entry is added to Out; where
\* the loop goes on from is left open, bWild)
RECURSIVE DebugDumpBlock(_, _, _, _, _, _)
DebugDumpBlock(A, Block, It, BlockSize, bZero, Acc) ==
    IF ~(It < BlockSize - GetDataOffset) THEN Acc
    ELSE With(HandleToId(Block, It \div Stride), LAMBDA Id :
         IF Id \in DOMAIN A.Mem
         THEN With([Acc EXCEPT !.Out = @ \cup {Id}], LAMBDA Acc1 :
                  DebugDumpBlock(A, Block,
                                 It + GetSize(A.Mem[Id].Header.Len, ~A.Mem[Id].Header.bIsWide),
                                 BlockSize, bZero, Acc1))
         ELSE IF <<Block, It>> \in A.Terminators
         THEN Acc
         ELSE IF bZero
         THEN [Acc EXCEPT !.Unwritten = @ \cup {Id}]
         ELSE [Acc EXCEPT !.Unwritten = @ \cup {Id}, !.Out = @ \cup {Id}, !.bWild = TRUE])

\* DebugDump(Out): the blocks before CurrentBlock in full, then CurrentBlock up
\* to CurrentByteCursor
RECURSIVE DebugDumpFrom(_, _, _, _)
DebugDumpFrom(A, BlockIdx, bZero, Acc) ==
    IF BlockIdx < A.CurrentBlock
    THEN With(DebugDumpBlock(A, BlockIdx, 0, BlockSizeBytes, bZero, Acc), LAMBDA Acc1 :
            DebugDumpFrom(A, BlockIdx + 1, bZero, Acc1))
    ELSE DebugDumpBlock(A, A.CurrentBlock, 0, A.CurrentByteCursor, bZero, Acc)

DebugDump(A, bZero) ==
    DebugDumpFrom(A, 0, bZero, [Out |-> {}, Unwritten |-> {}, bWild |-> FALSE])

\* the entries Allocate has returned and Create has not yet written
InCreate == {thr[u].NewId : u \in {v \in Threads : thr[v].pc = "InitEntry"}}

\* FNamePool::DebugDump: Entries.DebugDump walks the blocks under the allocator's
\* read lock and fills the caller's array
DebugDumpWalk(t) ==
    /\ Running /\ thr[t].pc = "DebugDumpLocked"
    /\ \E R \in {DebugDump(Entries, bZero) : bZero \in BOOLEAN} :
          returned' = returned \cup
              {[N |-> thr[t].N, Req |-> thr[t].Req, Out |-> R.Out, Unwritten |-> R.Unwritten,
                bWild |-> R.bWild, Written |-> DOMAIN Entries.Mem, InCreate |-> InCreate]}
    /\ Release(t, EntriesLock)
    /\ thr' = [thr EXCEPT ![t] = IdleThread]
    /\ PoolUnchanged
    /\ UNCHANGED <<bCasePreserving, ENames, Singleton, BatchOwner, Fatal, nOps>>

NextDump ==
    \E t \in Threads :
        \/ DumpCall(t)
        \/ LockStep(t)
        \/ StoreDisplayFindLocked(t)
        \/ InsertLocked(t)
        \/ AllocateLocked(t)
        \/ InitEntryStep(t)
        \/ ClaimSlotStep(t)
        \/ InsertExistingLocked(t)
        \/ DebugDumpWalk(t)

SpecDump == Init /\ [][NextDump]_vars

-----------------------------------------------------------------------------
(* Vocabulary of the properties *)

IsAdd(r) == r.Req.Op = "FName" /\ r.Req.FindType = "Add"
IsFind(r) == r.Req.Op = "FName" /\ r.Req.FindType = "Find"

\* r interned its view: a find-or-intern call that reached the pool, or a name of
\* a loaded batch
Interns(r) == (IsAdd(r) /\ r.View.Len > 0) \/ r.Req.Op = "LoadNameBatch"

\* two views hold the same text up to ASCII letter case
EqualIgnoringCase(A, B) == A.bIsWide = B.bIsWide /\ LowerStr(A.Str) = LowerStr(B.Str)

AllShards ==
    {ComparisonShards[k] : k \in 1..FNamePoolShards}
    \cup (IF bCasePreserving THEN {DisplayShards[k] : k \in 1..FNamePoolShards} ELSE {})

UsedSlotValues(Shard) == {Shard.Slots[i] : i \in {j \in 1..Capacity(Shard) : Used(Shard.Slots[j])}}

UsedSlotCount(Shard) == Cardinality({i \in 1..Capacity(Shard) : Used(Shard.Slots[i])})

-----------------------------------------------------------------------------
\* C1: idempotence of interning.  Any two completed FName(s, FNAME_Add) calls on
\* the same text s (same buffer, narrow or wide), whatever other calls ran before,
\* between or during them, returned the same display identifier, the same
\* comparison identifier and the same number.
C1_InternIdempotent ==
    \A r1 \in returned : \A r2 \in returned :
        (IsAdd(r1) /\ IsAdd(r2) /\ r1.Req = r2.Req)
            => /\ r1.Result.DisplayIndex = r2.Result.DisplayIndex
               /\ r1.Result.ComparisonIndex = r2.Result.ComparisonIndex
               /\ r1.Result.Number = r2.Result.Number

\* the first and the third call interned "ab_1", a batch was loaded in between
C1_Witness ==
    \E r1 \in returned : \E r2 \in returned : \E rb \in returned :
        /\ IsAdd(r1) /\ IsAdd(r2) /\ r1.Req = r2.Req /\ r1.Req.Buf = Str_ab_1
        /\ r1.N = 1 /\ r2.N = 3
        /\ rb.N = 2 /\ rb.Req.Op = "LoadNameBatch"

-----------------------------------------------------------------------------
\* the entries a shard has created: a comparison shard those that are their own
\* comparison entry, a display shard those that refer to another entry
CreatedBy(bDisplay, K) ==
    {Id \in DOMAIN Entries.Mem :
        /\ bDisplay <=> (bCasePreserving /\ Entries.Mem[Id].ComparisonId # Id)
        /\ HashName(bDisplay, MakeView(Entries.Mem[Id])).ShardIndex + 1 = K}

\* C2: concurrent deduplication.  Calls that began to intern the same text while
\* the pool did not hold it all returned the same identifiers; no two entries hold
\* the same text; and each shard's NumCreatedEntries is the number of entries it
\* has created, so the text raised the count of its shard by exactly one.
C2_ConcurrentDedup ==
    /\ \A r1 \in returned : \A r2 \in returned :
          (IsAdd(r1) /\ IsAdd(r2) /\ r1.Absent /\ r2.Absent /\ r1.View = r2.View)
              => /\ r1.Result.DisplayIndex = r2.Result.DisplayIndex
                 /\ r1.Result.ComparisonIndex = r2.Result.ComparisonIndex
    /\ \A Id1 \in DOMAIN Entries.Mem : \A Id2 \in DOMAIN Entries.Mem :
          (Entries.Mem[Id1].Name = Entries.Mem[Id2].Name
           /\ Entries.Mem[Id1].Header.bIsWide = Entries.Mem[Id2].Header.bIsWide)
              => Id1 = Id2
    /\ \A K \in 1..FNamePoolShards :
          /\ ComparisonShards[K].NumCreatedEntries = Cardinality(CreatedBy(FALSE, K))
          /\ bCasePreserving =>
                DisplayShards[K].NumCreatedEntries = Cardinality(CreatedBy(TRUE, K))

\* both threads began to intern "ab" while it was absent, and both have returned
C2_Witness ==
    \E r1 \in returned : \E r2 \in returned :
        /\ IsAdd(r1) /\ IsAdd(r2) /\ r1.N # r2.N
        /\ r1.Absent /\ r2.Absent
        /\ r1.View.Str = Str_ab /\ r2.View.Str = Str_ab
        /\ r1.Req.Buf = Str_ab /\ r2.Req.Buf = Str_ab

-----------------------------------------------------------------------------
\* C3: case merge.  Whenever two texts that differ only in ASCII letter case have
\* been interned (by FNAME_Add or from a batch, in any order, by any threads), the
\* two calls returned the same comparison identifier; their display identifiers
\* are free to differ.
C3_CaseMerge ==
    \A r1 \in returned : \A r2 \in returned :
        (Interns(r1) /\ Interns(r2) /\ EqualIgnoringCase(r1.View, r2.View))
            => r1.Result.ComparisonIndex = r2.Result.ComparisonIndex

\* case is preserved, "ab" and "AB" were interned and got different display
\* identifiers
C3_Witness ==
    /\ bCasePreserving
    /\ \E r1 \in returned : \E r2 \in returned :
          /\ IsAdd(r1) /\ IsAdd(r2)
          /\ r1.View.Str = Str_ab /\ r2.View.Str = Str_AB
          /\ r1.Result.DisplayIndex # r2.Result.DisplayIndex

-----------------------------------------------------------------------------
\* C4: no false merges.  Two texts handed to the pool that differ in length, in
\* width or in a character beyond ASCII letter case never got the same comparison
\* identifier, and the entry behind the comparison identifier a call returned
\* holds the call's text up to letter case -- also for "ab" / "ba" (equal hashes)
\* and "ab" / "abx" (same shard, same slot probe hash).
C4_NoFalseMerge ==
    /\ \A r1 \in returned : \A r2 \in returned :
          (Interns(r1) /\ Interns(r2) /\ ~EqualIgnoringCase(r1.View, r2.View))
              => r1.Result.ComparisonIndex # r2.Result.ComparisonIndex
    /\ \A r \in returned :
          Interns(r) =>
              /\ r.Result.ComparisonIndex \in DOMAIN Entries.Mem
              /\ EqualIgnoringCase(MakeView(Entries.Mem[r.Result.ComparisonIndex]), r.View)

\* "ab", "ba" and "abx" were interned; the first two agree on the whole hash, the
\* third agrees with "ab" on shard and slot probe hash
C4_Witness ==
    /\ HashName(FALSE, FNameStringView(Str_ab, FALSE))
         = HashName(FALSE, FNameStringView(Str_ba, FALSE))
    /\ HashName(FALSE, FNameStringView(Str_ab, FALSE)).ShardIndex
         = HashName(FALSE, FNameStringView(Str_abx, FALSE)).ShardIndex
    /\ HashName(FALSE, FNameStringView(Str_ab, FALSE)).SlotProbeHash
         = HashName(FALSE, FNameStringView(Str_abx, FALSE)).SlotProbeHash
    /\ \E r1 \in returned : \E r2 \in returned : \E r3 \in returned :
          /\ IsAdd(r1) /\ IsAdd(r2) /\ IsAdd(r3)
          /\ r1.View.Str = Str_ab /\ r2.View.Str = Str_ba /\ r3.View.Str = Str_abx

-----------------------------------------------------------------------------
\* C5: growth preserves identity.  A step that grows a shard carries every used
\* slot value into the new slot array (none lost, none twice, at most the slot
\* being claimed added, UsedSlots the number of used slots) and changes no
\* existing entry; and at every time, growth or not, looking up a text that was
\* interned yields the identifiers its interning returned.
GrowthCarriesSlots ==
    /\ \A K \in 1..FNamePoolShards :
          /\ Capacity(ComparisonShards'[K]) # Capacity(ComparisonShards[K]) =>
                /\ UsedSlotValues(ComparisonShards[K]) \subseteq UsedSlotValues(ComparisonShards'[K])
                /\ UsedSlotCount(ComparisonShards'[K]) <= ComparisonShards[K].UsedSlots + 1
                /\ UsedSlotCount(ComparisonShards'[K]) = Cardinality(UsedSlotValues(ComparisonShards'[K]))
                /\ ComparisonShards'[K].UsedSlots = UsedSlotCount(ComparisonShards'[K])
          /\ Capacity(DisplayShards'[K]) # Capacity(DisplayShards[K]) =>
                /\ UsedSlotValues(DisplayShards[K]) \subseteq UsedSlotValues(DisplayShards'[K])
                /\ UsedSlotCount(DisplayShards'[K]) <= DisplayShards[K].UsedSlots + 1
                /\ UsedSlotCount(DisplayShards'[K]) = Cardinality(UsedSlotValues(DisplayShards'[K]))
                /\ DisplayShards'[K].UsedSlots = UsedSlotCount(DisplayShards'[K])
    /\ \A Id \in DOMAIN Entries.Mem :
          Id \in DOMAIN Entries'.Mem /\ Entries'.Mem[Id] = Entries.Mem[Id]

LookupsReturnInternedIds ==
    \A r \in returned :
        Interns(r) =>
            /\ PoolComparisonFind(Pool, r.View) = r.Result.ComparisonIndex
            /\ IsAdd(r) => PoolFind(Pool, r.View) = r.Result.DisplayIndex

C5_GrowthPreservesIdentity == [][GrowthCarriesSlots]_vars /\ []LookupsReturnInternedIds

\* four texts were interned and a comparison shard has grown twice since its
\* initialization
C5_Witness ==
    /\ Cardinality({r.View : r \in {x \in returned : IsAdd(x)}}) >= 4
    /\ \E K \in 1..FNamePoolShards :
          Capacity(ComparisonShards[K]) >= 4 * FNamePoolInitialSlotsPerShard

-----------------------------------------------------------------------------
\* C6: load factor bound.  No shard is ever left with UsedSlots * 10 at or above
\* 9 * Capacity: not by Insert, not by InsertExistingEntry, not by Reserve, not
\* by the construction of the pool.
C6_LoadFactorBound ==
    \A Shard \in AllShards : Shard.UsedSlots * 10 < 9 * Capacity(Shard)

\* a shard that has claimed the slot that made it grow twice
C6_Witness ==
    \E Shard \in AllShards :
        /\ Shard.UsedSlots >= 4
        /\ Capacity(Shard) >= 4 * FNamePoolInitialSlotsPerShard

-----------------------------------------------------------------------------
\* the used slots of a sequence of shards that refer to entry identifier 0
NoneSlots(Shards) ==
    UNION {{Slot \in UsedSlotValues(Shards[K]) : GetId(Slot) = 0} : K \in 1..FNamePoolShards}

\* C7: empty-slot sentinel.  The check() of FNameSlot never fails (no all-zero
\* value is written into a claimed slot), so UsedSlots stays the number of
\* non-zero slots; and entry 0, "None", keeps its slot in the comparison index
\* (and in the display index when case is preserved) with a non-zero probe hash,
\* however "None" is spelled by the calls that reach it.
C7_EmptySlotSentinel ==
    /\ Fatal # "FNameSlot"
    /\ \A Shard \in AllShards : Shard.UsedSlots = UsedSlotCount(Shard)
    /\ NoneSlots(ComparisonShards) # {}
    /\ bCasePreserving => NoneSlots(DisplayShards) # {}
    /\ \A Slot \in NoneSlots(ComparisonShards) \cup NoneSlots(DisplayShards) :
          GetProbeHash(Slot) # 0

\* "None", "none" and "NONE" have all been interned, and without the bit that
\* marks "None" the slot of entry 0 would be all zero
C7_Witness ==
    /\ \A Str \in {Str_None, Str_none, Str_NONE} :
          \E r \in returned : IsAdd(r) /\ r.View.Str = Str
    /\ \E Slot \in NoneSlots(ComparisonShards) :
          GetProbeHash(Slot) = 2 ^ ProbeHashShift

-----------------------------------------------------------------------------
\* a step of a find-only lookup: FName(text, FNAME_Find) enters Make, or one of the
\* two critical sections of FNamePool::Find runs
FindStep ==
    \E t \in Threads :
        /\ thr'[t] # thr[t]
        /\ \/ thr[t].pc \in {"FindDisplay", "FindComparison"}
           \/ thr'[t].pc \in {"FindDisplay", "FindComparison"}

\* C8: Find is read-only.  No step of a find-only lookup, hit or miss, changes
\* the allocator (blocks, current block, cursor, entries) or any shard (slots,
\* UsedSlots, capacity, NumCreatedEntries, NumCreatedWideEntries).
C8_FindReadOnly ==
    [][FindStep => UNCHANGED <<Entries, ComparisonShards, DisplayShards>>]_vars

\* a find-only lookup has missed and another has hit
C8_Witness ==
    \E r1 \in returned : \E r2 \in returned :
        /\ IsFind(r1) /\ IsFind(r2)
        /\ r1.Result.DisplayIndex = 0
        /\ r2.Result.DisplayIndex # 0

-----------------------------------------------------------------------------
\* C9 as the specification states it: a completed FName(t, FNAME_Find) whose text
\* is held by no entry of the pool, in any letter case, returned the no-name
\* handle FName().
C9_FindMissIsNoName ==
    \A r \in returned :
        (IsFind(r) /\ IsAbsent(Pool, r.View)) => FNameEquals(r.Result, NAME_None)

\* C9, the part that holds: a completed FName(t, FNAME_Find) that found an entry
\* returned the identifiers and the number that FName(s, FNAME_Add) returned for
\* every interned s that equals t up to ASCII letter case.
C9_FindHitEqualsAdd ==
    \A r1 \in returned : \A r2 \in returned :
        (IsFind(r1) /\ IsAdd(r2) /\ r1.Result.DisplayIndex # 0
         /\ LowerStr(r1.Req.Buf) = LowerStr(r2.Req.Buf))
            => FNameEquals(r1.Result, r2.Result)

-----------------------------------------------------------------------------
\* C10: sentinel equivalence.  FName(s, FNAME_Add) for s the empty text, a null
\* pointer, "None", "none" or "NONE", from an ANSICHAR or a WIDECHAR buffer,
\* returned a handle equal to FName(): comparison identifier 0 and no number.
C10_SentinelEquivalence ==
    \A r \in returned :
        (IsAdd(r) /\ (r.Req.bNull \/ r.Req.Buf \in SentinelTexts))
            => /\ r.Result.ComparisonIndex = 0
               /\ r.Result.Number = NAME_NO_NUMBER_INTERNAL
               /\ FNameEquals(r.Result, NAME_None)

\* a null pointer, the empty text and "NONE" from a WIDECHAR buffer were interned,
\* the last with a display entry of its own
C10_Witness ==
    /\ \E r \in returned : IsAdd(r) /\ r.Req.bNull
    /\ \E r \in returned : IsAdd(r) /\ ~r.Req.bNull /\ r.Req.Buf = <<>>
    /\ \E r \in returned :
          /\ IsAdd(r) /\ r.Req.bWideBuf /\ r.Req.Buf = Str_NONE
          /\ r.Result.DisplayIndex # 0

-----------------------------------------------------------------------------
(* Vocabulary of the constructor properties *)

\* a completed call of an overload that takes no number
IsAuto(r) == r.Req.Overload \in {"Name", "LenName"}

\* the text a call was given: the first ViewLen characters of its buffer
GivenText(r) == SubSeq(r.Req.Buf, 1, ViewLen(r.Req))

\* the lengths k for which the text ends in '_' followed by exactly k digits
SuffixLens(T) ==
    {k \in 1..(Len(T) - 1) :
        /\ T[Len(T) - k] = 95
        /\ \A i \in (Len(T) - k + 1)..Len(T) : IsDigit(T[i])}

\* the last k characters of T as decimal digits
LastDigits(T, k) == [i \in 1..k |-> T[Len(T) - k + i] - 48]

\* a digit sequence of 1 to 10 digits that does not start with 0, or is just "0"
WellFormedDigits(ds) ==
    /\ Len(ds) >= 1 /\ Len(ds) <= Len(Int32Max_Digits)
    /\ (ds[1] # 0 \/ Len(ds) = 1)

\* A <= B for digit sequences of the same length
DigitsLeq(A, B) ==
    \/ A = B
    \/ \E i \in 1..Len(A) : A[i] < B[i] /\ \A j \in 1..(i - 1) : A[j] = B[j]

\* the value of ds is at most 2^31 - 1
FitsInt32(ds) ==
    Len(ds) < Len(Int32Max_Digits)
        \/ (Len(ds) = Len(Int32Max_Digits) /\ DigitsLeq(ds, Int32Max_Digits))

\* the decimal digits of n >= 0
RECURSIVE ToDigits(_)
ToDigits(n) == IF n < 10 THEN <<n>> ELSE ToDigits(n \div 10) \o <<n % 10>>

\* the call came to Make(prefix, number) with the text's last k + 1 characters
\* cut off and the digits' value as the external number
SplitAt(r, k) ==
    /\ ~r.Immediate
    /\ r.View.Str = SubSeq(GivenText(r), 1, Len(GivenText(r)) - k - 1)
    /\ r.Number >= 1
    /\ ToDigits(r.Number - 1) = LastDigits(GivenText(r), k)

\* the call interned the whole text with no number (FName() for the empty text)
Unsplit(r) ==
    /\ r.View.Str = GivenText(r)
    /\ r.Number = NAME_NO_NUMBER_INTERNAL
    /\ r.Immediate <=> GivenText(r) = <<>>

\* the call returned FName() without reaching the pool
IsNoName(r) == r.Immediate /\ r.Number = NAME_NO_NUMBER_INTERNAL

\* the text of the call was searched for a suffix: split when it ends in '_' and
\* 1 to 10 digits that do not start with '0' (unless just "0") and are worth at
\* most 2^31 - 2, FName() when nothing is left before the '_', whole otherwise
SplitOrWhole(r) ==
    LET T == GivenText(r)
        Ks == {k \in SuffixLens(T) :
                 /\ WellFormedDigits(LastDigits(T, k))
                 /\ FitsInt32(LastDigits(T, k))
                 /\ LastDigits(T, k) # Int32Max_Digits}
    IN IF Ks = {} THEN Unsplit(r)
       ELSE \E k \in Ks : IF k + 1 = Len(T) THEN IsNoName(r) ELSE SplitAt(r, k)

-----------------------------------------------------------------------------
\* C11 as the specification states it: a text given without a number is split at
\* its trailing "_<digits>" exactly when the digits are 1 to 10, do not start with
\* '0' unless they are just "0", and their value fits the 32-bit signed range; the
\* handle then has the prefix as text and the value as external number; every
\* other text is interned whole with no number.
C11_SplitWhenFitsInt32 ==
    \A r \in returned : IsAuto(r) =>
        LET T == GivenText(r)
            Ks == {k \in SuffixLens(T) :
                     WellFormedDigits(LastDigits(T, k)) /\ FitsInt32(LastDigits(T, k))}
        IN IF Ks # {} THEN \E k \in Ks : SplitAt(r, k) ELSE Unsplit(r)

\* C11, amended: the text is split exactly when the digits are 1 to 10, do not
\* start with '0' unless they are just "0", and their value is at most 2^31 - 2
\* (so that value + 1 fits the 32-bit signed range).  The handle then has the
\* prefix as text and the value as external number, except that an empty prefix
\* gives FName() with no number.  Every other text is interned whole with no
\* number.
C11_SuffixSplitRule == \A r \in returned : IsAuto(r) => SplitOrWhole(r)

\* "T_1_0" was split into ("T_1", 0), "T_01" was interned whole, or "_1" gave
\* FName(), together with a split at the largest value, 2147483646
C11_Witness ==
    /\ \E r \in returned :
          /\ IsAuto(r) /\ GivenText(r) = Str_T_1 \o <<95, 48>>
          /\ r.View.Str = Str_T_1 /\ r.Number = 1
    /\ \E r \in returned :
          /\ IsAuto(r) /\ r.View.Str = Str_T /\ r.Number = MAX_int32

-----------------------------------------------------------------------------
\* C12: no overflow near the 32-bit boundary.  For every text that ends in '_'
\* followed by digits and is given without a number, the internal number handed
\* to Make is 0 (no number), or lies in 1 .. 2^31 - 1 and is the digits' value
\* plus one; it is never negative and never a wrapped value.
C12_NoOverflow ==
    \A r \in returned : (IsAuto(r) /\ SuffixLens(GivenText(r)) # {}) =>
        \/ r.Number = NAME_NO_NUMBER_INTERNAL
        \/ /\ r.Number >= 1 /\ r.Number <= MAX_int32
           /\ \E k \in SuffixLens(GivenText(r)) :
                 ToDigits(r.Number - 1) = LastDigits(GivenText(r), k)

\* "T_2147483646" came to the number 2^31 - 1 and "T_4000000000" to no number
C12_Witness ==
    /\ \E r \in returned :
          /\ IsAuto(r) /\ GivenText(r) = Str_T \o <<95>> \o DigitChars(<<2, 1, 4, 7, 4, 8, 3, 6, 4, 6>>)
          /\ r.Number = MAX_int32
    /\ \E r \in returned :
          /\ IsAuto(r) /\ GivenText(r) = Str_T \o <<95>> \o DigitChars(<<4, 0, 0, 0, 0, 0, 0, 0, 0, 0>>)
          /\ r.Number = NAME_NO_NUMBER_INTERNAL /\ r.View.Str = GivenText(r)

-----------------------------------------------------------------------------
\* two calls came to the same thing: FName() at once, or Make with the same text,
\* width and number
SameOutcome(r1, r2) ==
    /\ r1.Immediate = r2.Immediate
    /\ r1.View = r2.View
    /\ r1.Number = r2.Number

\* C13: an explicit length bounds the input.  FName(L, Buf) uses only the first L
\* characters of Buf, for the text and for the suffix detection: it comes to the
\* same text, width and number as FName(Lit) for the literal Lit made of those L
\* characters, whether the buffers are ANSICHAR or WIDECHAR.
C13_ExplicitLengthBounds ==
    \A r1 \in returned : \A r2 \in returned :
        (/\ r1.Req.Overload = "LenName"
         /\ r2.Req.Overload = "Name" /\ ~r2.Req.bNull
         /\ r2.Req.Buf = SubSeq(r1.Req.Buf, 1, r1.Req.Len))
            => SameOutcome(r1, r2)

\* length 3 of the buffer "T_01" was split into ("T", 0), and so was the literal
\* "T_0"
C13_Witness ==
    \E r1 \in returned : \E r2 \in returned :
        /\ r1.Req.Overload = "LenName" /\ r1.Req.Len < Len(r1.Req.Buf)
        /\ r2.Req.Overload = "Name"
        /\ r2.Req.Buf = SubSeq(r1.Req.Buf, 1, r1.Req.Len)
        /\ r1.View.Str = Str_T /\ r1.Number = 1
        /\ r1.Req.Buf[r1.Req.Len + 1] = 49

-----------------------------------------------------------------------------
\* a completed call of an overload that takes a number
TakesNumber(r) == r.Req.Overload \in {"NameNumber", "LenNameNumber", "NameNumberSplit"}

\* C14 as the specification states it: whenever a number is supplied, with every
\* overload that accepts one, the text is interned whole and the handle's number
\* is the supplied one.
C14_NumberAlwaysWins ==
    \A r \in returned : TakesNumber(r) =>
        /\ r.View.Str = GivenText(r)
        /\ r.Number = r.Req.InNumber

\* the overloads that search the text for a suffix when the supplied number is
\* NAME_NO_NUMBER_INTERNAL
DetectsOnNoNumber(r) ==
    \/ r.Req.Overload = "LenNameNumber"
    \/ r.Req.Overload = "NameNumberSplit" /\ r.Req.bSplitName

\* C14, amended: with a non-empty text and a supplied number other than
\* NAME_NO_NUMBER_INTERNAL, every overload interns the text whole and the handle's
\* number is the supplied one.  With NAME_NO_NUMBER_INTERNAL supplied,
\* FName(Name, InNumber) and the bSplitName = false call still intern the text whole
\* with no number, while FName(Len, Name, InNumber) and the bSplitName = true call
\* search the text for a suffix as if no number had been given.  An empty text gives
\* FName() whatever number is supplied.
C14_ExplicitNumberPrecedence ==
    \A r \in returned : TakesNumber(r) =>
        IF GivenText(r) = <<>> THEN IsNoName(r)
        ELSE IF r.Req.InNumber = NAME_NO_NUMBER_INTERNAL /\ DetectsOnNoNumber(r)
        THEN SplitOrWhole(r)
        ELSE /\ ~r.Immediate
             /\ r.View.Str = GivenText(r)
             /\ r.Number = r.Req.InNumber

\* FName(3, "T_1", 2) kept "T_1" whole with the number 2, and FName(3, "T_1",
\* NAME_NO_NUMBER_INTERNAL) was split into ("T", 1)
C14_Witness ==
    /\ \E r \in returned :
          /\ r.Req.Overload = "LenNameNumber" /\ GivenText(r) = Str_T_1
          /\ r.Req.InNumber = 2 /\ r.View.Str = Str_T_1 /\ r.Number = 2
    /\ \E r \in returned :
          /\ r.Req.Overload = "LenNameNumber" /\ GivenText(r) = Str_T_1
          /\ r.Req.InNumber = NAME_NO_NUMBER_INTERNAL
          /\ r.View.Str = Str_T /\ r.Number = 2


-----------------------------------------------------------------------------
(* The hard-coded names *)

IsToEName(r) == "EName" \in DOMAIN r

\* the identifier the pool holds for line i of the table
RegisteredId(i) == PoolFind(Pool, FNameStringView(ENames.Table[i].Name, FALSE))

RegisteredIdsDistinct ==
    \A i, j \in DOMAIN ENames.Table : i # j => RegisteredId(i) # RegisteredId(j)

\* C15: construction of the pool gives the registered names pairwise distinct
\* identifiers, or else, two of them having interned to the same identifier, it
\* takes the fatal duplicate-hardcoded-name path
C15_UniqueOrFatal == RegisteredIdsDistinct \/ Fatal = "DuplicateHardcodedName"

\* the fatal path is taken for two names with one enum value
C15_FatalReached == Fatal = "DuplicateHardcodedName"

RegisteredENames == {ENames.Table[i].Num : i \in DOMAIN ENames.Table}
ConstructionIds == {FindByEName(E) : E \in RegisteredENames}

\* C16: the EName of the identifier of a registered EName E is E, and an
\* identifier that construction gave to no registered name has no EName, in
\* particular one above the largest hard-coded identifier, whatever has been
\* interned since; every ToEName call returned accordingly
C16_ENameRoundTrip ==
    /\ \A E \in RegisteredENames : FindEName(FindByEName(E)) = E
    /\ \A Id \in EntryIds \ ConstructionIds : FindEName(Id) = NoEName
    /\ \A r \in returned : IsToEName(r) =>
          /\ r.Id \in ConstructionIds =>
                r.EName \in RegisteredENames /\ FindByEName(r.EName) = r.Id
          /\ r.Id \notin ConstructionIds => r.EName = NoEName

\* a name interned after construction was asked for its EName and has none, and
\* a hard-coded name other than None was asked and got its own
C16_Witness ==
    /\ \E r \in returned :
          /\ IsToEName(r) /\ r.Id > ENames.LargestEnameUnstableId
          /\ r.EName = NoEName
    /\ \E r \in returned :
          IsToEName(r) /\ r.EName # NoEName /\ r.EName # EName_None


-----------------------------------------------------------------------------
(* The locks *)

\* the comparison shard locks from the first to the last, then the allocator lock
ShardsThenEntries ==
    [i \in 1..(FNamePoolShards + 1) |->
        IF i <= FNamePoolShards THEN [Kind |-> "Comparison", Idx |-> i]
        ELSE [Kind |-> "Entries", Idx |-> 0]]

HeldSeq(t) == [i \in DOMAIN Held[t] |-> Held[t][i].Lock]
AllWriteHeld(t) == \A i \in DOMAIN Held[t] : Held[t][i].bWrite
IsPrefix(A, B) == Len(A) <= Len(B) /\ A = SubSeq(B, 1, Len(A))

InLoadNameBatch(t) == thr[t].pc \in {"BatchLock", "BatchStoreLocked", "BatchUnlock"}
InOrdinaryInsert(t) ==
    thr[t].pc \in {"InsertLocked", "AllocateLock", "AllocateLocked", "InitEntry", "ClaimSlot"}
IsBlocked(t) ==
    thr[t].pc \in LockPcs /\ ~CanLock(Wanted(t).Lock, Wanted(t).bWrite)

\* C17: the batch lock takes the comparison shard locks from the first to the
\* last and then the allocator lock, the batch unlock gives back the allocator
\* lock first and then the shard locks from the last to the first (so what a
\* batch holds is always a leading part of that order); an ordinary insert holds
\* exactly one shard lock and the allocator lock only inside it; and no thread
\* asks for a shard lock while it holds the allocator lock
C17_LockHierarchy ==
    \A t \in Threads :
        /\ InLoadNameBatch(t) =>
              /\ IsPrefix(HeldSeq(t), ShardsThenEntries) /\ AllWriteHeld(t)
              /\ thr[t].pc = "BatchLock" => Len(Held[t]) = thr[t].Idx - 1
              /\ thr[t].pc = "BatchUnlock" =>
                    Len(Held[t]) = Len(ShardsThenEntries) - (thr[t].Idx - 1)
        /\ InOrdinaryInsert(t) =>
              \E L \in {[Kind |-> IF thr[t].bDisplay THEN "Display" ELSE "Comparison",
                          Idx |-> InsertShardIndex(t)]} :
                 /\ AllWriteHeld(t)
                 /\ HeldSeq(t) = IF thr[t].pc = "AllocateLocked" THEN <<L, EntriesLock>>
                                  ELSE <<L>>
        /\ (thr[t].pc \in LockPcs /\ IsShardLock(Wanted(t).Lock)) =>
              EntriesLock \notin HeldLocks(t)

\* a batch has given back the allocator lock and still holds every shard lock,
\* while an ordinary insert allocates inside its display shard's lock
C17_Witness ==
    \E t, u \in Threads :
        /\ thr[t].pc = "BatchUnlock" /\ thr[t].Idx = 2
        /\ Len(Held[t]) = FNamePoolShards
        /\ thr[u].pc = "AllocateLocked" /\ Len(Held[u]) = 2

\* C18: under fair scheduling every call a thread has begun (Store, Find,
\* Reserve, DebugDump, LoadNameBatch) comes to its end, unless a check() ends
\* the process
C18_DeadlockFreedom ==
    \A t \in Threads : (thr[t].pc # "Idle") ~> (thr[t].pc = "Idle" \/ ~Running)

\* a batch waits for a shard lock held by an insert that is about to ask for the
\* allocator lock
C18_Witness ==
    \E t, u \in Threads :
        /\ thr[t].pc = "BatchLock" /\ IsBlocked(t)
        /\ thr[u].pc = "AllocateLock" /\ ~thr[u].bDisplay
        /\ Wanted(t).Lock \in HeldLocks(u)

\* between the return of BatchLock() and the call of BatchUnlock()
InBatch(t) ==
    thr[t].pc = "BatchStoreLocked" \/ (thr[t].pc = "BatchUnlock" /\ thr[t].Idx = 1)

HoldsBatchLock(t) ==
    HeldSeq(t) = ShardsThenEntries /\ AllWriteHeld(t)

\* the allocator without the entries' contents: what Allocate changes
Allocation(A) == [A EXCEPT !.Mem = <<>>]

\* C19: LoadNameBatch takes the batch lock once, before its first insert, and
\* gives it back once, after its last; while it is between the two, no other
\* thread completes a find or an insert on a comparison shard or an allocation
C19_BatchIsolation ==
    /\ [](\A t \in Threads : InBatch(t) => HoldsBatchLock(t))
    /\ [][\A t \in Threads :
            /\ (~HoldsBatchLock(t) /\ HoldsBatchLock(t)') =>
                  (thr[t].pc = "BatchLock" /\ thr[t]'.pc # "BatchLock")
            /\ (HoldsBatchLock(t) /\ ~HoldsBatchLock(t)') =>
                  (thr[t].pc = "BatchUnlock" /\ thr[t].Idx = 1)
            /\ (InBatch(t) /\ thr[t]' = thr[t]) =>
                  /\ ComparisonShards' = ComparisonShards
                  /\ Allocation(Entries)' = Allocation(Entries)
                  /\ \A u \in Threads :
                        thr[u].pc = "FindComparisonLocked" => thr[u]' = thr[u]]_vars

\* a batch has stored its names and not yet unlocked, while another thread
\* waits for the allocator lock inside its display shard's lock
C19_Witness ==
    \E t, u \in Threads :
        /\ thr[t].pc = "BatchUnlock" /\ thr[t].Idx = 1
        /\ thr[u].pc = "AllocateLock" /\ IsBlocked(u)

SlotIds(Shards) ==
    {GetId(Shards[k].Slots[i]) :
        <<k, i>> \in {p \in (1..FNamePoolShards) \X (1..(2 ^ FNameBlockOffsetBits)) :
                        p[2] <= Len(Shards[p[1]].Slots) /\ Used(Shards[p[1]].Slots[p[2]])}}

VisibleIds == SlotIds(ComparisonShards) \cup SlotIds(DisplayShards)

\* C20: an identifier is in a slot, where a find can come upon it and resolve it
\* without a lock, only once its entry has been written in full
C20_PublicationSafety == VisibleIds \subseteq DOMAIN Entries.Mem

\* one insert has published its entry, another has written its entry and not yet
\* claimed the slot
C20_Witness ==
    /\ \E r \in returned : IsAdd(r) /\ r.Absent /\ r.Result.DisplayIndex \in VisibleIds
    /\ \E t \in Threads :
          /\ thr[t].pc = "ClaimSlot"
          /\ thr[t].NewId \in DOMAIN Entries.Mem /\ thr[t].NewId \notin VisibleIds


-----------------------------------------------------------------------------
(* The singleton *)

IsGetNamePool(r) == "bBuilt" \in DOMAIN r
IsTearDown(r) == "bWasInitialized" \in DOMAIN r

\* C21: between two teardowns the pool is constructed at most once, whichever
\* way the threads' first calls interleave, every thread is handed a pool whose
\* constructor has returned, and TearDown destroys an initialised pool once and
\* nothing when no pool is initialised
C21_SingletonConstruction ==
    /\ Singleton.Constructions <= 1
    /\ \A r \in returned :
          /\ IsGetNamePool(r) => r.bBuilt
          /\ IsTearDown(r) => r.Destructions = (IF r.bWasInitialized THEN 1 ELSE 0)

-----------------------------------------------------------------------------
(* The allocator *)

IsAllocated(r) == r.Op = "Allocate"
Allocations == {r \in returned : IsAllocated(r)}

\* thread t is inside Allocate, past the check of the size
PastSizeCheck(t) == thr[t].pc \in {"AllocateLock", "AllocateBody", "AllocateUnlock"}

\* C26: a request whose aligned size exceeds a block aborts before the lock is
\* taken: it never gets past the check of the size, no handle is returned for
\* it and the allocator (cursor included) is as it was; no handle is returned
\* with a block index of FNameMaxBlocks or more, and the step in which a check
\* fails returns no handle
C26_AllocatorFatal ==
    /\ [](\A t \in Threads :
             PastSizeCheck(t) => Align(thr[t].Req.NumBytes, Stride) <= BlockSizeBytes)
    /\ [](\A r \in Allocations :
             Align(r.Bytes, Stride) <= BlockSizeBytes /\ r.Block < FNameMaxBlocks)
    /\ [][/\ ((\E t \in Threads : thr[t].pc = "Idle" /\ thr'[t].pc = "Allocate")
                 => (Fatal' # "" /\ Entries' = Entries /\ returned' = returned))
           /\ ((Fatal = "" /\ Fatal' # "") => (returned' = returned))
           /\ ((\E t \in Threads :
                    /\ thr[t].pc = "AllocateBody"
                    /\ Entries.CurrentBlock = FNameMaxBlocks - 1
                    /\ BlockSizeBytes - Entries.CurrentByteCursor
                           < Align(thr[t].Req.NumBytes, Stride)
                    /\ (thr'[t] # thr[t] \/ Entries' # Entries))
                 => (Fatal' # ""))]_vars

\* a request of more than a block has aborted with the cursor inside a block
C26_Witness ==
    /\ Fatal # ""
    /\ Entries.CurrentByteCursor > 0
    /\ \E t \in Threads :
          thr[t].pc = "Allocate" /\ Align(thr[t].Req.NumBytes, Stride) > BlockSizeBytes

\* C27: every handle returned designates bytes that begin where the handle
\* says, at a multiple of the alignment, are at least as many as requested,
\* end inside the block, and overlap those of no other handle; block and offset
\* are below their limits and survive packing into an identifier of EntryIdBits
\* bits
C27_AllocationRegions ==
    \A r \in Allocations :
        /\ r.Start = r.Offset * Stride
        /\ r.Start % Stride = 0
        /\ r.End - r.Start >= r.Bytes
        /\ r.End <= BlockSizeBytes
        /\ r.Block < FNameMaxBlocks /\ r.Offset < FNameBlockOffsets
        /\ HandleToId(r.Block, r.Offset) < 2 ^ EntryIdBits
        /\ IdToHandle(HandleToId(r.Block, r.Offset)) = [Block |-> r.Block, Offset |-> r.Offset]
        /\ \A q \in Allocations \ {r} :
              q.Block # r.Block \/ q.End <= r.Start \/ r.End <= q.Start

\* a handle allocated under the batch lock and one allocated under the scope
\* lock by the other thread lie in one block, and a block has been added
C27_Witness ==
    /\ \E r, q \in Allocations :
          r.N > 0 /\ q.N > 0 /\ r.bBatch /\ ~q.bBatch /\ r.Block = q.Block
    /\ \E r \in Allocations : r.N > 0 /\ r.Start = 0 /\ r.Block > 0

-----------------------------------------------------------------------------
(* InsertExistingEntry *)

\* Value is met on the probe sequence from UnmaskedSlotIndex before any unused slot
OnProbePath(Slots, UnmaskedSlotIndex, Value) ==
    \E D \in 0..(Len(Slots) - 1) :
        /\ Slots[((UnmaskedSlotIndex + D) % Len(Slots)) + 1] = Value
        /\ \A E \in 0..(D - 1) : Used(Slots[((UnmaskedSlotIndex + E) % Len(Slots)) + 1])

SlotCount(Shard, Value) == Cardinality({i \in 1..Capacity(Shard) : Shard.Slots[i] = Value})

\* what thread t calls InsertExistingEntry with: the display hash of its text,
\* the shard of that hash, the slot value made of the comparison identifier
ExistingHash(t) == FNameValue(TRUE, thr[t].View).Hash
ExistingShardIndex(t) == ExistingHash(t).ShardIndex + 1
ExistingLookup(t) == FNameSlot(thr[t].CmpId, ExistingHash(t).SlotProbeHash)
ExistingOnProbePath(t) ==
    OnProbePath(DisplayShards[ExistingShardIndex(t)].Slots, ExistingHash(t).UnmaskedSlotIndex,
                ExistingLookup(t))

\* C30: a completed InsertExistingEntry leaves its shard as it was when the slot
\* value (identifier and probe hash) is on the probe path; otherwise the shard
\* has one used slot more, holding that value, and every other used value as
\* often as before.  Either way the allocator (entries and cursor), the other
\* shards and the shard's counters of created entries are as before.
C30_InsertExisting ==
    [][\A t \in Threads :
          (thr[t].pc = "StoreInsertExisting" /\ thr'[t].pc # "StoreInsertExisting" /\ Fatal' = "")
          => LET K == ExistingShardIndex(t)
                 Old == DisplayShards[K]
                 New == DisplayShards'[K]
             IN /\ Entries' = Entries
                /\ ComparisonShards' = ComparisonShards
                /\ \A J \in 1..FNamePoolShards \ {K} : DisplayShards'[J] = DisplayShards[J]
                /\ New.NumCreatedEntries = Old.NumCreatedEntries
                /\ New.NumCreatedWideEntries = Old.NumCreatedWideEntries
                /\ IF ExistingOnProbePath(t)
                   THEN New = Old
                   ELSE /\ New.UsedSlots = Old.UsedSlots + 1
                        /\ UsedSlotCount(New) = UsedSlotCount(Old) + 1
                        /\ SlotCount(New, ExistingLookup(t)) = SlotCount(Old, ExistingLookup(t)) + 1
                        /\ \A V \in UsedSlotValues(Old) \ {ExistingLookup(t)} :
                              SlotCount(New, V) = SlotCount(Old, V)]_vars

\* a thread is about to call InsertExistingEntry with a slot value that another
\* call of InsertExistingEntry has claimed a slot for
C30_Witness ==
    \E t \in Threads :
        /\ thr[t].pc = "StoreInsertExisting"
        /\ ExistingOnProbePath(t)
        /\ DisplayShards[ExistingShardIndex(t)].UsedSlots > 0
        /\ \E r \in returned : IsAdd(r) /\ r.Result.DisplayIndex = thr[t].CmpId

-----------------------------------------------------------------------------
(* Permanence *)

\* C28: no step of Store, Find, Reserve or a batch load removes an entry or
\* changes the width, length or characters an identifier resolves to, and every
\* used slot value of a shard is a used slot value of that shard after the step
\* (growth included)
C28_Permanence ==
    [][/\ \A Id \in DOMAIN Entries.Mem :
              /\ Id \in DOMAIN Entries'.Mem
              /\ Entries'.Mem[Id].Header.bIsWide = Entries.Mem[Id].Header.bIsWide
              /\ Entries'.Mem[Id].Header.Len = Entries.Mem[Id].Header.Len
              /\ Entries'.Mem[Id].Name = Entries.Mem[Id].Name
       /\ \A K \in 1..FNamePoolShards :
              /\ UsedSlotValues(ComparisonShards[K]) \subseteq UsedSlotValues(ComparisonShards'[K])
              /\ UsedSlotValues(DisplayShards[K]) \subseteq UsedSlotValues(DisplayShards'[K])]_vars

\* the identifier the first call returned still resolves to the text of that
\* call after a later call has created another entry and a shard has grown
C28_Witness ==
    \E r \in returned : \E q \in returned :
        /\ IsAdd(r) /\ r.N = 1 /\ IsAdd(q) /\ q.N > 1
        /\ q.Result.DisplayIndex # r.Result.DisplayIndex
        /\ q.Result.DisplayIndex \notin ConstructionIds
        /\ Entries.Mem[r.Result.DisplayIndex].Name = r.View.Str
        /\ \E K \in 1..FNamePoolShards :
              Capacity(ComparisonShards[K]) > FNamePoolInitialSlotsPerShard

-----------------------------------------------------------------------------
(* Comparison entry first *)

\* the entries that refer to another entry as their comparison entry
DisplayOnlyIds == {Id \in DOMAIN Entries.Mem : Entries.Mem[Id].ComparisonId # Id}

\* C29: with case preservation, at every point of every interleaving (inside
\* the critical sections too), the comparison identifier stored in an entry that
\* is in a slot of either shard array, or that was created for the display
\* shards, is that of an entry that is written, that is in a slot of the
\* comparison shards, that is its own comparison entry and whose text is the
\* entry's text up to ASCII letter case
C29_ComparisonEntryFirst ==
    bCasePreserving =>
        \A Id \in (VisibleIds \cap DOMAIN Entries.Mem) \cup DisplayOnlyIds :
            \E C \in {Entries.Mem[Id].ComparisonId} :
                /\ C \in DOMAIN Entries.Mem
                /\ C \in SlotIds(ComparisonShards)
                /\ Entries.Mem[C].ComparisonId = C
                /\ EqualIgnoringCase(MakeView(Entries.Mem[Id]), MakeView(Entries.Mem[C]))

\* a call has returned an entry created for the display shards, which is in a
\* slot of a display shard and not of a comparison shard
C29_Witness ==
    /\ bCasePreserving
    /\ \E r \in returned :
          /\ IsAdd(r)
          /\ r.Result.DisplayIndex \in DisplayOnlyIds
          /\ r.Result.DisplayIndex \in SlotIds(DisplayShards) \ SlotIds(ComparisonShards)
          /\ r.Result.ComparisonIndex \in SlotIds(ComparisonShards)

-----------------------------------------------------------------------------
(* Batch serialization *)

IsSave(r) == r.Op = "SaveNameBatch"
IsLoad(r) == r.Op = "LoadNameBatch"

\* a batch that SaveNameBatch wrote in this run is loaded as it was written
LoadsSaved(r) == IsLoad(r) /\ ~r.bForeign /\ ~r.bChangeVersion

\* C22: LoadNameBatch of the two streams that SaveNameBatch wrote for a sequence
\* of identifiers of the pool succeeds and yields that sequence, identifier by
\* identifier, whatever the sequence (empty, with duplicates, with a wide name
\* after a narrow name of odd length)
C22_BatchRoundTrip ==
    \A r \in returned : LoadsSaved(r) => (r.Fatal = "" /\ r.OutNames = r.Names)

\* the identifiers of pool P that FName::GetComparisonIndex returns: those of the
\* entries that are their own comparison entry
ComparisonIdsOf(P) ==
    {Id \in DOMAIN P.Entries.Mem : ~bCasePreserving \/ P.Entries.Mem[Id].ComparisonId = Id}

\* C22 (amended): LoadNameBatch of the two streams that SaveNameBatch wrote for
\* a sequence of comparison identifiers of the pool succeeds and yields that
\* sequence, identifier by identifier, whatever the sequence (empty, with
\* duplicates, with a wide name after a narrow name of odd length)
C22_ComparisonRoundTrip ==
    \A r \in returned :
        (LoadsSaved(r) /\ \A i \in DOMAIN r.Names : r.Names[i] \in ComparisonIdsOf(r.Before))
            => (r.Fatal = "" /\ r.OutNames = r.Names)

\* a batch of a narrow name of odd length and a wide name after it has been
\* saved and loaded
C22_Witness ==
    \E r \in returned :
        /\ LoadsSaved(r) /\ Len(r.Names) = 2 /\ r.OutNames = r.Names
        /\ \A i \in DOMAIN r.Names : r.Names[i] \in ComparisonIdsOf(r.Before)
        /\ ~r.Before.Entries.Mem[r.Names[1]].Header.bIsWide
        /\ r.Before.Entries.Mem[r.Names[1]].Header.Len % 2 = 1
        /\ r.Before.Entries.Mem[r.Names[2]].Header.bIsWide

\* C23: two calls of SaveNameBatch with the same sequence of identifiers wrote
\* the same bytes to both streams, whatever the memory of the output arrays
\* held before and whatever was interned between the calls
C23_SaveDeterminism ==
    \A r \in returned : \A q \in returned :
        (IsSave(r) /\ IsSave(q) /\ r.Names = q.Names) => r.Streams = q.Streams

\* a narrow name of odd length and a wide name after it have been saved twice,
\* into arrays whose memory held different bytes
C23_Witness ==
    \E r \in returned : \E q \in returned :
        /\ IsSave(r) /\ IsSave(q) /\ r.Names = q.Names /\ r.Old # q.Old
        /\ Len(r.Names) = 2
        /\ ~Entries.Mem[r.Names[1]].Header.bIsWide
        /\ Entries.Mem[r.Names[1]].Header.Len % 2 = 1
        /\ Entries.Mem[r.Names[2]].Header.bIsWide
        /\ \E i \in DOMAIN r.Streams.NameData : r.Streams.NameData[i] = 0

\* the hash stream of load r with the other hash version: as saved when r
\* changed the version, changed when r loaded it as saved
OtherVersion(r) ==
    IF r.bChangeVersion THEN r.SavedHashData ELSE ChangeVersion(r.SavedHashData)

\* C24: every load of a saved batch, with the hash version as saved or
\* changed, returned the identifiers and left the pool that the load of the same
\* name stream with the other hash version, from the same pool, returns and leaves
C24_HashVersionFallback ==
    \A r \in returned :
        IsLoad(r) => \E R \in {LoadNameBatch(r.Before, r.NameData, OtherVersion(r))} :
                        /\ R.OutNames = r.OutNames
                        /\ R.P = r.After
                        /\ R.Fatal = r.Fatal

\* a batch of another process has been loaded with a changed hash version; the
\* load has interned one of its two names and found the other
C24_Witness ==
    \E r \in returned :
        /\ IsLoad(r) /\ r.bChangeVersion /\ r.bForeign /\ r.Fatal = ""
        /\ Len(r.OutNames) = 2
        /\ r.OutNames[1] \notin DOMAIN r.Before.Entries.Mem
        /\ r.OutNames[2] \in DOMAIN r.Before.Entries.Mem
        /\ r.After # r.Before
        /\ HashWords(r.HashData)[1] # AlgorithmId
        /\ HashWords(r.SavedHashData)[1] = AlgorithmId

-----------------------------------------------------------------------------
(* Corrupt streams *)

IsArchiveLoad(r) == r.Op = "ArchiveLoad"

\* the length field of r is larger than the limit of the archive or than the
\* name buffer of the entry
Oversized(r) ==
    /\ r.StringLen # MIN_int32
    /\ LET Num == IF r.StringLen < 0 THEN 0 - r.StringLen ELSE r.StringLen
       IN  \/ (r.MaxSerializeSize > 0 /\ Num > r.MaxSerializeSize)
           \/ Num > NAME_SIZE

\* C25: a load whose length field is MIN_int32, or is larger than the maximum
\* serialize size of the archive or than the name buffer of the entry, sets the
\* critical error of the archive and returns with nothing copied into the
\* entry, and the process goes on
C25_CorruptStream ==
    \A r \in returned :
       (IsArchiveLoad(r) /\ (r.StringLen = MIN_int32 \/ Oversized(r)))
          => (/\ r.bCriticalError
              /\ r.Copied = 0
              /\ r.E = EmptyEntrySerialized
              /\ r.Outcome = "Returned")

\* the part of C25 that the source has: the marker, and a length above a
\* positive maximum serialize size
C25_SizeLimitChecked ==
    \A r \in returned :
       (/\ IsArchiveLoad(r)
        /\ \/ r.StringLen = MIN_int32
           \/ /\ r.MaxSerializeSize > 0
              /\ (IF r.StringLen < 0 THEN 0 - r.StringLen ELSE r.StringLen) > r.MaxSerializeSize)
          => (/\ r.bCriticalError
              /\ r.Copied = 0
              /\ r.E = EmptyEntrySerialized
              /\ r.Outcome = "Returned")

\* a load of a length past the name buffer that no limit of the archive stops
C25_Overrun ==
    \E r \in returned :
       /\ IsArchiveLoad(r)
       /\ r.StringLen = NAME_SIZE + 1
       /\ r.MaxSerializeSize = 0
       /\ ~r.bCriticalError
       /\ r.Copied > NAME_SIZE

-----------------------------------------------------------------------------
(* Ordering *)

IsCompare(r) == r.Op = "Compare"
IsCompareLexical(r) == r.Op = "CompareLexical"

Sign(x) == IF x < 0 THEN 0 - 1 ELSE IF x > 0 THEN 1 ELSE 0

\* the order of two texts, character by character without regard to the case
\* of ASCII letters, a proper prefix before the longer text: -1, 0 or 1
RECURSIVE LexSign(_, _)
LexSign(S, T) ==
    IF S = <<>> \/ T = <<>>
    THEN (IF S = <<>> /\ T = <<>> THEN 0 ELSE IF S = <<>> THEN 0 - 1 ELSE 1)
    ELSE IF ToLower(Head(S)) < ToLower(Head(T)) THEN 0 - 1
    ELSE IF ToLower(Head(S)) > ToLower(Head(T)) THEN 1
    ELSE LexSign(Tail(S), Tail(T))

NumberSign(A, B) == IF A.Number < B.Number THEN 0 - 1 ELSE IF A.Number > B.Number THEN 1 ELSE 0

\* the sign FName::Compare is to have for the handles A and B
ExpectedSign(A, B) ==
    IF A.ComparisonIndex = B.ComparisonIndex THEN NumberSign(A, B)
    ELSE LexSign(Entries.Mem[A.ComparisonIndex].Name, Entries.Mem[B.ComparisonIndex].Name)

\* Compare has given r.Value the expected sign, and the opposite comparison
\* gives the opposite sign
OrdersAsExpected(r) ==
    /\ r.Outcome # "Trap"
    /\ Sign(r.Value) = ExpectedSign(r.A, r.B)
    /\ \A R \in FNameCompare(Entries.Mem, r.B, r.A) :
          R.Outcome # "Trap" /\ Sign(R.Value) = 0 - Sign(r.Value)

\* C31: for all handles a and b, Compare(a, b) has the sign of
\* number(a) - number(b) when the comparison identifiers are equal and the sign
\* of the case-insensitive order of the comparison texts otherwise, and
\* sign(Compare(a, b)) = -sign(Compare(b, a))
C31_Comparator == \A r \in returned : IsCompare(r) => OrdersAsExpected(r)

\* the difference of the numbers of A and B fits int32 in both directions
DifferenceFits(A, B) ==
    /\ B.Number < 0 => A.Number < MAX_int32 + B.Number
    /\ B.Number > 0 => A.Number > MIN_int32 + B.Number
    /\ A.Number < 0 => B.Number < MAX_int32 + A.Number
    /\ A.Number > 0 => B.Number > MIN_int32 + A.Number

\* the part of C31 that the source has: the same, for handles the difference
\* of whose numbers fits int32 (as it does whenever neither number is negative)
C31_ComparatorInRange ==
    \A r \in returned :
       (IsCompare(r) /\ (r.A.ComparisonIndex = r.B.ComparisonIndex => DifferenceFits(r.A, r.B)))
          => OrdersAsExpected(r)

\* a narrow name has been compared with a wide name it orders before, though its
\* number is the larger one
C31_Witness ==
    \E r \in returned :
       /\ IsCompare(r)
       /\ r.A.ComparisonIndex # r.B.ComparisonIndex
       /\ ~Entries.Mem[r.A.ComparisonIndex].Header.bIsWide
       /\ Entries.Mem[r.B.ComparisonIndex].Header.bIsWide
       /\ r.A.Number > r.B.Number
       /\ r.Value < 0

\* two handles of one name with numbers whose difference overflows have been compared
C31_Overflow ==
    \E r \in returned :
       /\ IsCompare(r)
       /\ r.A.ComparisonIndex = r.B.ComparisonIndex
       /\ r.Outcome = "Wrapped"

\* C40: CompareLexical(a, b) is 0 when a equals b, negative when the text of a
\* orders before the text of b without regard to case, positive when it orders
\* after, and sign(a.CompareLexical(b)) = -sign(b.CompareLexical(a))
C40_CompareLexical ==
    \A r \in returned :
       IsCompareLexical(r) =>
          /\ Sign(r.Value) = (IF r.A = r.B THEN 0
                              ELSE LexSign(Entries.Mem[r.A].Name, Entries.Mem[r.B].Name))
          /\ Sign(r.Value) = 0 - Sign(CompareLexical(Entries.Mem, r.B, r.A))

\* what CompareLexical does give: 0 for equal identifiers and for texts equal
\* without regard to case, 1 otherwise
C40_ZeroOrOne ==
    \A r \in returned :
       IsCompareLexical(r) =>
          r.Value = (IF LexSign(Entries.Mem[r.A].Name, Entries.Mem[r.B].Name) = 0 THEN 0 ELSE 1)

-----------------------------------------------------------------------------
(* Decoding *)

IsName(r) == r.Op = "FName"
IsToString(r) == r.Op = "ToString"
IsGetStringLength(r) == r.Op = "GetStringLength"
IsEqualsString(r) == r.Op = "EqualsString"

\* T is '_' followed by digits that are split off as a number: nothing is left
\* of the text to intern
StemIsEmpty(T) ==
    \E k \in SuffixLens(T) :
       /\ k + 1 = Len(T)
       /\ WellFormedDigits(LastDigits(T, k))
       /\ FitsInt32(LastDigits(T, k))
       /\ LastDigits(T, k) # Int32Max_Digits

\* the strings and lengths decoded from the handle of n are those of its text
DecodesToText(n) ==
    /\ \A r \in returned :
          (IsToString(r) /\ r.Name = n.Result) =>
             /\ LowerStr(r.Out) = LowerStr(n.Text)
             /\ bCasePreserving => r.Out = n.Text
    /\ \A r \in returned :
          (IsGetStringLength(r) /\ r.Name = n.Result) => r.Value = Len(n.Text)

\* C32: for every non-empty text s shorter than NAME_SIZE,
\* GetStringLength(FName(s)) is the length of s and ToString(FName(s)) is s
\* without regard to ASCII case, and exactly s with case preservation
C32_DecodeRoundTrip ==
    \A n \in returned :
       (IsName(n) /\ n.Text # <<>> /\ Len(n.Text) < NAME_SIZE) => DecodesToText(n)

\* C32 amended: the same for every such text that is not '_' followed by a
\* number that is split off; that text interns to FName(), which decodes to
\* "None"
C32_DecodeRoundTripOfStems ==
    \A n \in returned :
       (IsName(n) /\ n.Text # <<>> /\ Len(n.Text) < NAME_SIZE)
          => IF StemIsEmpty(n.Text)
             THEN /\ FNameEquals(n.Result, NAME_None)
                  /\ \A r \in returned :
                        (IsToString(r) /\ r.Name = n.Result) => r.Out = Str_None
             ELSE DecodesToText(n)

\* a text with a suffix that is split off has been interned and decoded
C32_Witness ==
    \E n \in returned, r \in returned :
       /\ IsName(n) /\ n.Text = Str_T_10 /\ n.Result.Number # NAME_NO_NUMBER_INTERNAL
       /\ IsToString(r) /\ r.Name = n.Result /\ r.Out = Str_T_10

\* C38: the handle of a text equals FName() exactly when the text is empty (or
\* a null pointer) or a spelling of "none" in whatever letter case
C38_OnlyNoneIsNone ==
    \A n \in returned :
       (IsName(n) /\ Len(n.Text) < NAME_SIZE)
          => (FNameEquals(n.Result, NAME_None)
                 <=> (n.Text = <<>> \/ LowerStr(n.Text) = Str_none))

\* C38 amended: ... or '_' followed by a number that is split off
C38_OnlyNoneAndEmptyStemIsNone ==
    \A n \in returned :
       (IsName(n) /\ Len(n.Text) < NAME_SIZE)
          => (FNameEquals(n.Result, NAME_None)
                 <=> (n.Text = <<>> \/ LowerStr(n.Text) = Str_none \/ StemIsEmpty(n.Text)))

\* a spelling of none and a text with a suffix have been interned, the one to
\* FName() and the other not
C38_Witness ==
    \E n \in returned, m \in returned :
       /\ IsName(n) /\ n.Text = Str_none /\ FNameEquals(n.Result, NAME_None)
       /\ IsName(m) /\ m.Text = Str_T_0 /\ ~FNameEquals(m.Result, NAME_None)

\* the handle FName(Str) gives for the TCHAR string Str in the current pool
Interned(Str, bNull) == FNameOf(Pool, FNameReq("Add", Str, bNull, TRUE), TRUE)

\* C39: Name == Str for a character pointer Str gives what Name == FName(Str) gives
C39_RawEqualsAgreesWithInterning ==
    \A r \in returned :
       (IsEqualsString(r) /\ Interned(r.Str, r.bNull).Fatal = "")
          => (r.Value <=> FNameEquals(r.Name, Interned(r.Str, r.bNull).Result))

\* every '_' of Str that only digits, signs and blanks follow begins a suffix
\* that is split off as a number, and is not the first character
SuffixesAreSplit(Str) ==
    \A i \in 1..Len(Str) :
       (Str[i] = 95 /\ \A j \in (i + 1)..Len(Str) : IsDigit(Str[j]) \/ Str[j] \in {32, 43, 45})
          => /\ i > 1
             /\ Len(Str) - i \in SuffixLens(Str)
             /\ WellFormedDigits(LastDigits(Str, Len(Str) - i))
             /\ FitsInt32(LastDigits(Str, Len(Str) - i))
             /\ LastDigits(Str, Len(Str) - i) # Int32Max_Digits

\* the part of C39 that the source has: the two comparisons agree for the null
\* pointer, the empty string and every string whose suffixes are split
C39_AgreesOnSplitStrings ==
    \A r \in returned :
       (IsEqualsString(r) /\ Interned(r.Str, r.bNull).Fatal = "" /\ SuffixesAreSplit(r.Str))
          => (r.Value <=> FNameEquals(r.Name, Interned(r.Str, r.bNull).Result))

\* a handle with the number 0 has been found equal to its text followed by '_'
C39_EqualsWithoutDigits ==
    \E r \in returned :
       /\ IsEqualsString(r)
       /\ r.Str = Str_T_
       /\ r.Name.Number = NAME_EXTERNAL_TO_INTERNAL(ToInt64(0))[1]
       /\ r.Value

-----------------------------------------------------------------------------
(* Replace in place *)

IsReplace(r) == r.Op = "FName" /\ r.Req.FindType = "Replace"

\* the pool after the step
PoolAfter == [Entries |-> Entries', ComparisonShards |-> ComparisonShards',
              DisplayShards |-> DisplayShards']

\* the comparison entries that hold the text of View in whatever letter case
ComparisonEntriesOf(Mem, View) ==
    {Id \in DOMAIN Mem :
        /\ bCasePreserving => Mem[Id].ComparisonId = Id
        /\ EqualIgnoringCase(MakeView(Mem[Id]), View)}

\* the call r overwrote the characters of the comparison entry c and left the
\* rest of the entry and the comparison shards as they were; its handle equals
\* the handles interning gave for that name before
ReplacedInPlace(r, c) ==
    /\ Entries'.Mem[c].Name = r.View.Str
    /\ Entries'.Mem[c].Header = Entries.Mem[c].Header
    /\ Entries'.Mem[c].ComparisonId = Entries.Mem[c].ComparisonId
    /\ ComparisonShards' = ComparisonShards
    /\ r.Result.ComparisonIndex = c
    /\ \A e \in returned :
          (IsName(e) /\ e.Req.FindType # "Find" /\ EqualIgnoringCase(e.View, r.View)
                     /\ e.Number = r.Number)
             => FNameEquals(e.Result, r.Result)

\* the call r left the pool as FNAME_Add of the same text leaves it, with the
\* same handle, which FNAME_Find of the text now returns
AddedByReplace(r) ==
    /\ \E A \in {FNameOf(Pool, [r.Req EXCEPT !.FindType = "Add"], TRUE)} :
          /\ PoolAfter = A.P
          /\ r.Result = A.Result
    /\ FNameOf(PoolAfter, [r.Req EXCEPT !.FindType = "Find"], TRUE).Result = r.Result

\* C33: a call in replace mode with a text that an existing name holds in
\* whatever letter case overwrites the characters of that name's comparison
\* entry with the text, leaves the entry's identifier, length, width and slot
\* as they were and returns a handle equal to the earlier handles of the name;
\* when there is no such name the call adds it as FNAME_Add does, and
\* FNAME_Find then returns it
C33_InPlaceReplace ==
    [][\A r \in returned' \ returned :
          IsReplace(r) =>
             IF ComparisonEntriesOf(Entries.Mem, r.View) # {}
             THEN \A c \in ComparisonEntriesOf(Entries.Mem, r.View) : ReplacedInPlace(r, c)
             ELSE AddedByReplace(r)]_vars

\* a replace has changed the letter case of the entry of a name interned before
C33_Witness ==
    \E r \in returned :
       /\ IsReplace(r) /\ r.View.Str = Str_AB
       /\ Entries.Mem[r.Result.ComparisonIndex].Name = Str_AB
       /\ \E e \in returned :
             /\ IsName(e) /\ e.Seq < r.Seq /\ e.Req.FindType = "Add" /\ e.View.Str = Str_ab
             /\ FNameEquals(e.Result, r.Result)

\* a replace has added a name, which a find has then returned
C33_AddedByReplace ==
    \E r \in returned, f \in returned :
          /\ IsReplace(r) /\ r.View.Str = Str_abx /\ r.Seq = 0
          /\ IsName(f) /\ f.Req.FindType = "Find" /\ f.View.Str = Str_abx /\ f.Result = r.Result
          /\ Cardinality(DOMAIN Entries.Mem) = Cardinality(DOMAIN NewPool.P.Entries.Mem) + 1

\* the used slot I of Shard is reached from the probe start its entry's current
\* text hashes to, over used slots only
FoundByRehash(bCaseSensitive, Shard, Mem, I) ==
    With(Rehash(bCaseSensitive, Mem, GetId(Shard.Slots[I])), LAMBDA Hash :
        \E D \in 0..(Capacity(Shard) - 1) :
            /\ ((Hash.UnmaskedSlotIndex + D) % Capacity(Shard)) + 1 = I
            /\ \A E \in 0..(D - 1) :
                  Used(Shard.Slots[((Hash.UnmaskedSlotIndex + E) % Capacity(Shard)) + 1]))

ShardFindable(bCaseSensitive, Shard, Mem) ==
    \A I \in 1..Capacity(Shard) :
        Used(Shard.Slots[I]) => FoundByRehash(bCaseSensitive, Shard, Mem, I)

ComparisonFindable ==
    \A K \in 1..FNamePoolShards : ShardFindable(FALSE, ComparisonShards[K], Entries.Mem)

DisplayFindable ==
    bCasePreserving
        => \A K \in 1..FNamePoolShards : ShardFindable(TRUE, DisplayShards[K], Entries.Mem)

\* C34: every used slot of every shard is reached by probing from the start
\* index that the current text of its entry hashes to (lower-cased in the
\* comparison shards, as it is in the display shards) without passing an empty
\* slot
C34_Findability == ComparisonFindable /\ DisplayFindable

\* the part of C34 that the source has: the slots of the comparison shards are
\* always reached, and those of the display shards as long as no call in replace
\* mode was made
C34_FindabilityBeforeReplace ==
    /\ ComparisonFindable
    /\ (\A r \in returned : ~IsReplace(r)) => DisplayFindable

\* a replace has changed the letter case of a comparison entry that a display
\* shard holds
C34_Replaced ==
    /\ bCasePreserving
    /\ \E r \in returned :
          /\ IsReplace(r) /\ r.View.Str = Str_Ab
          /\ r.Result.DisplayIndex # r.Result.ComparisonIndex
          /\ \E K \in 1..FNamePoolShards :
                \E V \in UsedSlotValues(DisplayShards[K]) : GetId(V) = r.Result.ComparisonIndex

-----------------------------------------------------------------------------
(* Probe termination *)

HasEmptySlot(Shard) == \E I \in 1..Capacity(Shard) : ~Used(Shard.Slots[I])

\* C35: in every state, those between the statements of ClaimSlot and of Grow
\* included, the slot array of every shard has an empty slot, and no probe (of
\* Insert, of InsertExistingEntry, of the loop of Grow) has gone round the array
\* without stopping
C35_ProbeTermination ==
    /\ \A Shard \in AllShards : HasEmptySlot(Shard)
    /\ Fatal # "Probe"
    /\ thr[SeqThread].pc \in {"Create", "Claim"} => thr[SeqThread].I # 0

\* Grow is half way: some of the old slots are in the new array, others not yet
C35_Witness ==
    /\ thr[SeqThread].pc = "GrowLoop"
    /\ InsertingShard.UsedSlots > 0
    /\ InsertingShard.UsedSlots < thr[SeqThread].OldUsedSlots
    /\ Capacity(InsertingShard) = 2 * Len(thr[SeqThread].OldSlots)

\* between calls every slot is where the probe for its entry's text finds it
GrowKeepsFindable ==
    thr[SeqThread].pc = "Idle" => ComparisonFindable /\ DisplayFindable

-----------------------------------------------------------------------------
(* DebugDump *)

IsDebugDump(r) == r.Req.Op = "DebugDump"

\* C36: a DebugDump, whatever Store runs beside it, reads the header of no entry
\* that Allocate has handed out and Create has not yet written, and puts only
\* written entries into its array
C36_DumpReadsWrittenEntries ==
    \A r \in returned :
       IsDebugDump(r) => r.Unwritten = {} /\ r.Out \subseteq r.Written

\* the part of C36 that the source has: a DebugDump made while no Create is
\* between its Allocate and its writes reads written headers only and puts
\* every entry into its array
C36_DumpWithoutCreate ==
    \A r \in returned :
       (IsDebugDump(r) /\ r.InCreate = {})
          => r.Unwritten = {} /\ r.Out = r.Written /\ ~r.bWild

\* a DebugDump has read the header of an entry that Create had not yet written
C36_DumpInCreate ==
    \E r \in returned : IsDebugDump(r) /\ r.InCreate # {} /\ r.Unwritten = r.InCreate

-----------------------------------------------------------------------------
(* Names and batch records of lengths around NAME_SIZE *)

\* calls made in one run of the length specification
MaxLengthOps == 2

\* a text of Length letters: no digit and no underscore, so that no suffix is
\* split off; the wide text begins with a character beyond ANSI
LetterText(Length, bIsWide) ==
    [i \in 1..Length |-> IF bIsWide /\ i = 1 THEN 228 ELSE 96 + i]

\* the lengths of the texts interned: the shortest, the longest allowed,
\* NAME_SIZE and more
InternLengths == {1, NAME_SIZE - 1, NAME_SIZE, NAME_SIZE + 1}

\* the header lengths of the batch records loaded.  A record of more than
\* NAME_SIZE characters is loaded with its hash only: without it the lower-case
\* copy (CharType LowerStr[NAME_SIZE], WIDECHAR Temp[NAME_SIZE]) is written past
\* its end.  Wide records stay below NAME_SIZE, as a block of the allocator is
\* scaled down to hold NAME_SIZE narrow characters
RecordLengths(bIsUtf16, bHash) ==
    IF bIsUtf16 THEN {1, NAME_SIZE - 1}
    ELSE IF bHash THEN {0, 1, NAME_SIZE - 1, NAME_SIZE, NAME_SIZE + 1}
    ELSE {0, 1, NAME_SIZE - 1, NAME_SIZE}

\* the bytes of one record as LoadNameHeader reads them at offset 0: the two
\* bytes of FSerializedNameHeader, then the characters
RecordData(Str, bIsUtf16) ==
    <<(IF bIsUtf16 THEN 128 ELSE 0) + ((Len(Str) \div 256) % 256), Len(Str) % 256>>
        \o ViewBytes(Str, bIsUtf16)

\* the hash stream of that record: the hash version and the lower-case hash,
\* or another hash version, with which the hash is not used
RecordHashes(Str, bIsUtf16, bHash) ==
    With(AddValue(AddValue(<<>>, AlgorithmId, 0), GenerateLowerCaseHash(Str, bIsUtf16), 0),
         LAMBDA HashData : IF bHash THEN HashData ELSE ChangeVersion(HashData))

InitLength ==
    /\ bCasePreserving \in BOOLEAN
    /\ Entries = NewPool.P.Entries
    /\ ComparisonShards = NewPool.P.ComparisonShards
    /\ DisplayShards = NewPool.P.DisplayShards
    /\ ENames = NewPool.ENames
    /\ Fatal = ""
    /\ BatchOwner = NoThread
    /\ thr = [t \in Threads |-> IdleThread]
    /\ Held = [t \in Threads |-> <<>>]
    /\ Singleton = ConstructedSingleton
    /\ returned = {}
    /\ nOps = 0

\* FName(Text, FNAME_Add) for a text of one of the lengths, in a build with or
\* without check()
LengthIntern ==
    /\ Running /\ nOps < MaxLengthOps
    /\ nOps' = nOps + 1
    /\ \E Length \in InternLengths, bWideBuf \in BOOLEAN, bDoCheck \in BOOLEAN :
       \E R \in {FNameOf(Pool, FNameReq("Add", LetterText(Length, bWideBuf), FALSE, bWideBuf),
                         bDoCheck)} :
          /\ SetPool(R.P)
          /\ Fatal' = R.Fatal
          /\ returned' = returned \cup
                {[Op |-> "FName", Seq |-> nOps, Length |-> Length, bWide |-> bWideBuf,
                  bDoCheck |-> bDoCheck, Before |-> Pool, After |-> R.P,
                  Result |-> R.Result, Fatal |-> R.Fatal]}
    /\ UNCHANGED <<bCasePreserving, ENames, Singleton, Held, BatchOwner, thr>>

\* LoadNameBatch(OutNames, NameData, HashData) on one record whose header holds
\* one of the lengths
LengthLoad ==
    /\ Running /\ nOps < MaxLengthOps
    /\ nOps' = nOps + 1
    /\ \E bIsUtf16 \in BOOLEAN, bHash \in BOOLEAN :
       \E Length \in RecordLengths(bIsUtf16, bHash) :
       \E Str \in {LetterText(Length, bIsUtf16)} :
       \E R \in {LoadNameBatch(Pool, RecordData(Str, bIsUtf16),
                               RecordHashes(Str, bIsUtf16, bHash))} :
          /\ SetPool(R.P)
          /\ Fatal' = R.Fatal
          /\ returned' = returned \cup
                {[Op |-> "LoadNameBatch", Seq |-> nOps, Length |-> Length,
                  bWide |-> bIsUtf16, bHash |-> bHash, Before |-> Pool, After |-> R.P,
                  OutNames |-> R.OutNames, Fatal |-> R.Fatal]}
    /\ UNCHANGED <<bCasePreserving, ENames, Singleton, Held, BatchOwner, thr>>

NextLength ==
    \/ LengthIntern
    \/ LengthLoad

SpecLength == InitLength /\ [][NextLength]_vars

-----------------------------------------------------------------------------
(* Entry lengths *)

IsLengthIntern(r) == r.Op = "FName" /\ "Length" \in DOMAIN r
IsLengthLoad(r) == r.Op = "LoadNameBatch" /\ "Length" \in DOMAIN r

\* the entries that the call recorded in r has created
EntriesCreatedBy(r) == DOMAIN r.After.Entries.Mem \ DOMAIN r.Before.Entries.Mem

\* the entry holds between 1 and NAME_SIZE - 1 characters, and its header says so
LengthWithinBound(Entry) ==
    /\ 1 <= Len(Entry.Name) /\ Len(Entry.Name) <= NAME_SIZE - 1
    /\ Entry.Header.Len = Len(Entry.Name)

\* C37: every entry of the pool, interned or loaded from a batch, holds between
\* 1 and NAME_SIZE - 1 characters; interning NAME_SIZE characters or more fails
\* (check(), or the error name) and creates no entry of that length; a batch
\* record whose header length is above NAME_SIZE - 1 is not inserted
C37_EntryLengthBound ==
    /\ \A Id \in DOMAIN Entries.Mem : LengthWithinBound(Entries.Mem[Id])
    /\ \A r \in returned :
          /\ (IsLengthIntern(r) /\ r.Length >= NAME_SIZE) =>
                /\ r.Fatal = "NAME_SIZE" \/ ~r.bDoCheck
                /\ \A Id \in EntriesCreatedBy(r) : Len(r.After.Entries.Mem[Id].Name) # r.Length
          /\ (IsLengthLoad(r) /\ r.Length > NAME_SIZE - 1) => EntriesCreatedBy(r) = {}

\* the part of C37 that is about interning: a text of NAME_SIZE characters or
\* more fails the check() or yields the error name, and every entry that
\* interning creates holds between 1 and NAME_SIZE - 1 characters
C37_InternedLengthBound ==
    \A r \in returned : IsLengthIntern(r) =>
        /\ r.Length >= NAME_SIZE => (r.Fatal = "NAME_SIZE" \/ ~r.bDoCheck)
        /\ r.Length >= NAME_SIZE /\ r.Fatal = "" =>
              \A Id \in EntriesCreatedBy(r) : r.After.Entries.Mem[Id].Name = Str_ERROR
        /\ \A Id \in EntriesCreatedBy(r) : LengthWithinBound(r.After.Entries.Mem[Id])

\* a batch record is inserted with the length of its header, whatever it is
C37_LoadedAsRecorded ==
    \A r \in returned : (IsLengthLoad(r) /\ r.Fatal = "") =>
        /\ Len(r.OutNames) = 1
        /\ Len(r.After.Entries.Mem[r.OutNames[1]].Name) = r.Length
        /\ r.After.Entries.Mem[r.OutNames[1]].Header.bIsWide = r.bWide

\* no record of NAME_SIZE characters or more has been loaded
C37_NoOverlongLoaded ==
    \A r \in returned : IsLengthLoad(r) => (r.Length < NAME_SIZE \/ EntriesCreatedBy(r) = {})

\* no text of NAME_SIZE characters or more has yielded the error name
C37_NoErrorName ==
    \A r \in returned : IsLengthIntern(r) => (r.Length < NAME_SIZE \/ r.Fatal # "")

=============================================================================
